---- MODULE Spec2Model ----
(***************************************************************************)
(* Model of the network traffic simulator: the engine (network.js), its   *)
(* router (utils/dijkstra.js) and the request handlers that call the      *)
(* engine (routes/simulate.js).                                           *)
(*                                                                         *)
(* JavaScript objects are functions whose DOMAIN is the set of keys that   *)
(* are present; arrays are sequences.  Request bodies are JSON numbers,    *)
(* written in half units (the body 0.5 is the integer 1, the body 2 is     *)
(* the integer 4), so that parseInt acts on something.                     *)
(***************************************************************************)
EXTENDS Integers, Sequences, FiniteSets, TLC

(***************************************************************************)
(* Bounds of the model.                                                    *)
(***************************************************************************)
MaxTicks == 2          \* ticks between two resets
MaxRate == 1           \* largest rate an administrative update asks for
MaxCapacity == 1       \* largest capacity an administrative update asks for
MaxAdminOps == 1       \* administrative updates in one behaviour
MaxAdvances == 4       \* advance-time requests counted between two resets
MaxRouterLinks == 4    \* links of the topologies handed to the router alone
MaxCallPackets == 3    \* largest packet count one updateLinkLoad call is given
MaxCallQueue == 4      \* largest queue an updateLinkLoad call may build
MaxCallCapacity == 2   \* largest capacity set between updateLinkLoad calls
MaxPending == 2        \* requests that wait at the server at one time
MaxReconstructSteps == 7   \* iterations of the path loop of dijkstra that are followed
MaxInFlight == 2       \* requests and answers of the component in flight at one time
MaxBacklogTicks == 5   \* value of the tick counter the backlog scenario stops at

(***************************************************************************)
(* network.js: module-level data.                                          *)
(***************************************************************************)
nodes == <<"A", "B", "C", "D", "E">>

NodeSet == {nodes[i] : i \in 1..Len(nodes)}

\* Object.keys(trafficRates): the slots in insertion order.
timeSlots == <<"08:00", "08:15", "08:30", "08:45">>

SlotSet == {timeSlots[i] : i \in 1..Len(timeSlots)}

null == "null"

linkKeyOf(from, to) == from \o "-" \o to

\* obj[key] || 0
GetOr0(obj, key) == IF key \in DOMAIN obj /\ obj[key] # 0 THEN obj[key] ELSE 0

Min(a, b) == IF a <= b THEN a ELSE b

VARIABLES
    networkState,   \* network.js: let networkState
    links,          \* network.js: const links (capacities are mutable)
    trafficRates,   \* network.js: const trafficRates (entries are mutable)
    response,       \* the status of the answer to the last request; the
                    \* data of an answer is read off the state it leaves
    advances,       \* advance-time requests since the last reset
    adminOps,       \* administrative updates so far
    rLinks,         \* the router called on its own: the links handed to it,
    rStart, rEnd,   \* the source and destination asked for,
    rPath,          \* the path returned,
    rPath2,         \* the path returned after one capacity was changed,
    rPhase,         \* "build", "routed" or "rerouted"
    dj,             \* dijkstra taken one loop iteration at a time
    driver,         \* NetworkSimulator.jsx: the state of the component, of
                    \* networkData the simulationStep; resetSent records
                    \* that the component has asked for a reset
    wire,           \* the requests and answers between browser and server
    handler         \* the position of the handler the server is running

vars == <<networkState, links, trafficRates, response, advances,
          adminOps, rLinks, rStart, rEnd, rPath, rPath2, rPhase, dj,
          driver, wire, handler>>

engineVars == <<networkState, links, trafficRates, response, advances,
                adminOps>>

routerVars == <<rLinks, rStart, rEnd, rPath, rPath2, rPhase, dj>>

serviceVars == <<driver, wire, handler>>

(***************************************************************************)
(* utils/dijkstra.js                                                       *)
(***************************************************************************)
\* The number Infinity, which no distance of the model reaches.
Infinity == -1

\* a < b on JavaScript numbers, Infinity included.
Less(a, b) == a # Infinity /\ (b = Infinity \/ a < b)

\* distances[node] = node === start ? 0 : Infinity, for each node.
initDistances(nodeSeq, start) ==
    [n \in {nodeSeq[i] : i \in 1..Len(nodeSeq)} |-> IF n = start THEN 0 ELSE Infinity]

\* previous[node] = null, for each node.
initPrevious(nodeSeq) == [n \in {nodeSeq[i] : i \in 1..Len(nodeSeq)} |-> null]

\* The Set unvisited, in insertion order (a Set keeps one copy of each value).
RECURSIVE initUnvisited(_, _, _)
initUnvisited(nodeSeq, k, acc) ==
    IF k > Len(nodeSeq) THEN acc
    ELSE initUnvisited(nodeSeq, k + 1,
            IF \E j \in 1..Len(acc) : acc[j] = nodeSeq[k] THEN acc
            ELSE Append(acc, nodeSeq[k]))

\* A variant of buildGraph that adds each link in its declared direction only.
RECURSIVE buildGraph_declaredDirectionOnly(_, _, _)
buildGraph_declaredDirectionOnly(graph, linkSeq, k) ==
    IF k > Len(linkSeq) THEN graph
    ELSE LET link == linkSeq[k]
             g1 == [graph EXCEPT ![link.from] =
                        Append(@, [node |-> link.to, weight |-> 1])]
         IN buildGraph_declaredDirectionOnly(g1, linkSeq, k + 1)

\* links.forEach: each link adds an edge in both directions.
RECURSIVE buildGraph(_, _, _)
buildGraph(graph, linkSeq, k) ==
    IF k > Len(linkSeq) THEN graph
    ELSE LET link == linkSeq[k]
             g1 == [graph EXCEPT ![link.from] =
                        Append(@, [node |-> link.to, weight |-> 1])]
             g2 == [g1 EXCEPT ![link.to] =
                        Append(@, [node |-> link.from, weight |-> 1])]
         IN buildGraph(g2, linkSeq, k + 1)

\* for (const node of unvisited): the first node of strictly smallest distance.
RECURSIVE findMinNode(_, _, _, _, _)
findMinNode(unvisited, distances, k, currentNode, minDistance) ==
    IF k > Len(unvisited) THEN currentNode
    ELSE LET node == unvisited[k] IN
         IF Less(distances[node], minDistance)
         THEN findMinNode(unvisited, distances, k + 1, node, distances[node])
         ELSE findMinNode(unvisited, distances, k + 1, currentNode, minDistance)

\* graph[currentNode].forEach: relax the unvisited neighbours.
RECURSIVE relaxNeighbors(_, _, _, _, _)
relaxNeighbors(dp, neighbors, k, currentNode, unvisited) ==
    IF k > Len(neighbors) THEN dp
    ELSE LET neighbor == neighbors[k]
             newDistance == dp.distances[currentNode] + neighbor.weight
             has == \E j \in 1..Len(unvisited) : unvisited[j] = neighbor.node
         IN IF has /\ Less(newDistance, dp.distances[neighbor.node])
            THEN relaxNeighbors(
                    [distances |-> [dp.distances EXCEPT ![neighbor.node] = newDistance],
                     previous |-> [dp.previous EXCEPT ![neighbor.node] = currentNode]],
                    neighbors, k + 1, currentNode, unvisited)
            ELSE relaxNeighbors(dp, neighbors, k + 1, currentNode, unvisited)

\* while (unvisited.size > 0) { ... }: returns the map previous.
RECURSIVE dijkstraLoop(_, _, _, _)
dijkstraLoop(graph, dp, unvisited, end) ==
    IF Len(unvisited) = 0 THEN dp.previous
    ELSE LET currentNode == findMinNode(unvisited, dp.distances, 1, null, Infinity) IN
         IF currentNode = null \/ dp.distances[currentNode] = Infinity
         THEN dp.previous
         ELSE LET rest == SelectSeq(unvisited, LAMBDA n : n # currentNode) IN
              IF currentNode = end THEN dp.previous
              ELSE dijkstraLoop(graph,
                      IF currentNode \in DOMAIN graph
                      THEN relaxNeighbors(dp, graph[currentNode], 1, currentNode, rest)
                      ELSE dp,
                      rest, end)

\* A variant of reconstructPath that pushes each node instead of unshifting it.
RECURSIVE reconstructPath_push(_, _, _)
reconstructPath_push(previous, currentNode, path) ==
    IF currentNode = null THEN path
    ELSE reconstructPath_push(previous, previous[currentNode],
                              Append(path, currentNode))

\* while (currentNode !== null) { path.unshift(currentNode); ... }
RECURSIVE reconstructPath(_, _, _)
reconstructPath(previous, currentNode, path) ==
    IF currentNode = null THEN path
    ELSE reconstructPath(previous, previous[currentNode], <<currentNode>> \o path)

dijkstra(nodeSeq, linkSeq, start, end) ==
    LET graph == buildGraph([n \in {nodeSeq[i] : i \in 1..Len(nodeSeq)} |-> <<>>],
                            linkSeq, 1)
        previous == dijkstraLoop(graph,
                        [distances |-> initDistances(nodeSeq, start),
                         previous |-> initPrevious(nodeSeq)],
                        initUnvisited(nodeSeq, 1, <<>>), end)
        path == reconstructPath(previous, end, <<>>)
    IN IF path[1] # start THEN <<>> ELSE path

(***************************************************************************)
(* network.js: the engine.  Each function is an operator from the state    *)
(* before the call to the state after it; ns is networkState, and linkSeq  *)
(* and rates are the module's links and trafficRates at the call.          *)
(***************************************************************************)
EmptyObject == [k \in {} |-> 0]

\* links.find(l => `${l.from}-${l.to}` === linkKey): its index, 0 for undefined.
findLinkByKey(linkSeq, linkKey) ==
    LET hits == {i \in 1..Len(linkSeq) :
                    linkKeyOf(linkSeq[i].from, linkSeq[i].to) = linkKey}
    IN IF hits = {} THEN 0 ELSE CHOOSE i \in hits : \A j \in hits : i <= j

\* links.find(l => l.from === from && l.to === to): its index, 0 for undefined.
findLink(linkSeq, from, to) ==
    LET hits == {i \in 1..Len(linkSeq) :
                    linkSeq[i].from = from /\ linkSeq[i].to = to}
    IN IF hits = {} THEN 0 ELSE CHOOSE i \in hits : \A j \in hits : i <= j

LinkKeys(linkSeq) ==
    {linkKeyOf(linkSeq[i].from, linkSeq[i].to) : i \in 1..Len(linkSeq)}

\* A variant of initializeNetwork that keeps the queues the links have.
initializeNetwork_keepsQueues(ns, linkSeq) ==
    [ns EXCEPT
        !.queues = [k \in LinkKeys(linkSeq) |-> GetOr0(ns.queues, k)],
        !.linkLoads = [k \in LinkKeys(linkSeq) |-> 0],
        !.nodeStats = [n \in NodeSet |->
                          [packetsGenerated |-> 0, packetsReceived |-> 0,
                           currentLoad |-> 0]]]

initializeNetwork(ns, linkSeq) ==
    [ns EXCEPT
        !.queues = [k \in LinkKeys(linkSeq) |-> 0],
        !.linkLoads = [k \in LinkKeys(linkSeq) |-> 0],
        !.nodeStats = [n \in NodeSet |->
                          [packetsGenerated |-> 0, packetsReceived |-> 0,
                           currentLoad |-> 0]]]

\* A variant of getRandomDestination that draws from all the nodes.
getRandomDestination_anyNode(source, r) == nodes[r + 1]

\* availableNodes[Math.floor(Math.random() * availableNodes.length)], where r
\* is the floor: 0 .. availableNodes.length - 1.
getRandomDestination(source, r) ==
    LET availableNodes == SelectSeq(nodes, LAMBDA n : n # source)
    IN availableNodes[r + 1]

\* A variant of processable that releases the whole queue.
processable_wholeQueue(ns, linkSeq, linkKey) ==
    LET li == findLinkByKey(linkSeq, linkKey) IN
    IF ns.queues[linkKey] > 0 /\ li # 0 THEN ns.queues[linkKey] ELSE 0

\* What processQueuedPackets releases from the queue of linkKey.
processable(ns, linkSeq, linkKey) ==
    LET li == findLinkByKey(linkSeq, linkKey) IN
    IF ns.queues[linkKey] > 0 /\ li # 0
    THEN Min(ns.queues[linkKey], linkSeq[li].capacity)
    ELSE 0

RECURSIVE SumOver(_, _)
SumOver(f, keys) ==
    IF keys = {} THEN 0
    ELSE LET k == CHOOSE x \in keys : TRUE IN f[k] + SumOver(f, keys \ {k})

processQueuedPackets(ns, linkSeq) ==
    LET released == [k \in DOMAIN ns.queues |-> processable(ns, linkSeq, k)] IN
    [ns EXCEPT
        !.queues = [k \in DOMAIN ns.queues |-> ns.queues[k] - released[k]],
        !.totalPacketsTransmitted = @ + SumOver(released, DOMAIN released)]

\* obj[key] = value, the key added when it is not there.
SetKey(obj, key, value) ==
    [k \in DOMAIN obj \cup {key} |-> IF k = key THEN value ELSE obj[k]]

\* A variant of updateLinkLoad that records the load it was asked for.
updateLinkLoad_uncapped(ns, linkSeq, linkKey, packets) ==
    LET li == findLinkByKey(linkSeq, linkKey) IN
    IF li = 0 THEN [ns |-> ns, ret |-> FALSE]
    ELSE LET newLoad == GetOr0(ns.linkLoads, linkKey) + packets IN
         [ns |-> [ns EXCEPT !.linkLoads = SetKey(@, linkKey, newLoad)],
          ret |-> newLoad <= linkSeq[li].capacity]

\* A variant of updateLinkLoad that gives a hop against the declared
\* direction the capacity it asks for.
updateLinkLoad_reverseHopFree(ns, linkSeq, linkKey, packets) ==
    LET li == findLinkByKey(linkSeq, linkKey) IN
    IF li = 0 THEN [ns |-> ns, ret |-> TRUE]
    ELSE LET newLoad == GetOr0(ns.linkLoads, linkKey) + packets IN
         IF newLoad > linkSeq[li].capacity
         THEN LET excess == newLoad - linkSeq[li].capacity IN
              [ns |-> [ns EXCEPT
                         !.queues = SetKey(@, linkKey,
                                       GetOr0(ns.queues, linkKey) + excess),
                         !.linkLoads = SetKey(@, linkKey, linkSeq[li].capacity)],
               ret |-> FALSE]
         ELSE [ns |-> [ns EXCEPT !.linkLoads = SetKey(@, linkKey, newLoad)],
               ret |-> TRUE]

\* A variant of updateLinkLoad that takes the excess with the opposite sign.
updateLinkLoad_excessSign(ns, linkSeq, linkKey, packets) ==
    LET li == findLinkByKey(linkSeq, linkKey) IN
    IF li = 0 THEN [ns |-> ns, ret |-> FALSE]
    ELSE LET newLoad == GetOr0(ns.linkLoads, linkKey) + packets IN
         IF newLoad > linkSeq[li].capacity
         THEN LET excess == linkSeq[li].capacity - newLoad IN
              [ns |-> [ns EXCEPT
                         !.queues = SetKey(@, linkKey,
                                       GetOr0(ns.queues, linkKey) + excess),
                         !.linkLoads = SetKey(@, linkKey, linkSeq[li].capacity)],
               ret |-> FALSE]
         ELSE [ns |-> [ns EXCEPT !.linkLoads = SetKey(@, linkKey, newLoad)],
               ret |-> TRUE]

\* A variant of updateLinkLoad that queues every packet of a congested call.
updateLinkLoad_queuesAll(ns, linkSeq, linkKey, packets) ==
    LET li == findLinkByKey(linkSeq, linkKey) IN
    IF li = 0 THEN [ns |-> ns, ret |-> FALSE]
    ELSE LET newLoad == GetOr0(ns.linkLoads, linkKey) + packets IN
         IF newLoad > linkSeq[li].capacity
         THEN [ns |-> [ns EXCEPT
                         !.queues = SetKey(@, linkKey,
                                       GetOr0(ns.queues, linkKey) + packets),
                         !.linkLoads = SetKey(@, linkKey, linkSeq[li].capacity)],
               ret |-> FALSE]
         ELSE [ns |-> [ns EXCEPT !.linkLoads = SetKey(@, linkKey, newLoad)],
               ret |-> TRUE]

\* Returns the state after the call and the value returned.
updateLinkLoad(ns, linkSeq, linkKey, packets) ==
    LET li == findLinkByKey(linkSeq, linkKey) IN
    IF li = 0 THEN [ns |-> ns, ret |-> FALSE]
    ELSE LET currentLoad == GetOr0(ns.linkLoads, linkKey)
             newLoad == currentLoad + packets
         IN IF newLoad > linkSeq[li].capacity
            THEN LET excess == newLoad - linkSeq[li].capacity IN
                 [ns |-> [ns EXCEPT
                            !.queues = SetKey(@, linkKey,
                                          GetOr0(ns.queues, linkKey) + excess),
                            !.linkLoads = SetKey(@, linkKey, linkSeq[li].capacity)],
                  ret |-> FALSE]
            ELSE [ns |-> [ns EXCEPT !.linkLoads = SetKey(@, linkKey, newLoad)],
                  ret |-> TRUE]

\* A variant of transmitAlongPath in which the last hop alone decides whether
\* the packet was transmitted.
RECURSIVE transmitAlongPath_lastHopDecides(_, _, _, _, _, _)
transmitAlongPath_lastHopDecides(ns, linkSeq, path, j, packetTransmitted, packetRoute) ==
    IF j > Len(path) - 1
    THEN [ns |-> ns, packetTransmitted |-> packetTransmitted,
          packetRoute |-> packetRoute]
    ELSE LET from == path[j]
             to == path[j + 1]
             linkKey == linkKeyOf(from, to)
             upd == updateLinkLoad(ns, linkSeq, linkKey, 1)
         IN transmitAlongPath_lastHopDecides(upd.ns, linkSeq, path, j + 1,
                upd.ret,
                Append(packetRoute,
                    [from |-> from, to |-> to, transmitted |-> upd.ret,
                     linkKey |-> linkKey]))

\* for (let j = 0; j < path.length - 1; j++) { ... }, j counted from 1.
RECURSIVE transmitAlongPath(_, _, _, _, _, _)
transmitAlongPath(ns, linkSeq, path, j, packetTransmitted, packetRoute) ==
    IF j > Len(path) - 1
    THEN [ns |-> ns, packetTransmitted |-> packetTransmitted,
          packetRoute |-> packetRoute]
    ELSE LET from == path[j]
             to == path[j + 1]
             linkKey == linkKeyOf(from, to)
             upd == updateLinkLoad(ns, linkSeq, linkKey, 1)
         IN transmitAlongPath(upd.ns, linkSeq, path, j + 1,
                packetTransmitted /\ upd.ret,
                Append(packetRoute,
                    [from |-> from, to |-> to, transmitted |-> upd.ret,
                     linkKey |-> linkKey]))

\* A variant of generatePacket without the test path.length < 2.
generatePacket_noSkip(ns, linkSeq, source, i, r) ==
    LET destination == getRandomDestination(source, r)
        path == dijkstra(nodes, linkSeq, source, destination)
        sent == transmitAlongPath(ns, linkSeq, path, 1, TRUE, <<>>)
        packet == [id |-> source \o "-" \o destination \o "-" \o ToString(i),
                   source |-> source,
                   destination |-> destination,
                   path |-> path,
                   route |-> sent.packetRoute,
                   transmitted |-> sent.packetTransmitted,
                   timestamp |-> ns.simulationStep]
        ns1 == [sent.ns EXCEPT !.packetStats = Append(@, packet)]
    IN IF sent.packetTransmitted
       THEN [ns1 EXCEPT
                !.nodeStats[destination].packetsReceived = @ + 1,
                !.totalPacketsTransmitted = @ + 1]
       ELSE ns1

\* A variant of generatePacket that counts a packet as received whether it
\* was transmitted or not.
generatePacket_receivesAlways(ns, linkSeq, source, i, r) ==
    LET destination == getRandomDestination(source, r)
        path == dijkstra(nodes, linkSeq, source, destination)
    IN IF Len(path) < 2 THEN ns
       ELSE LET sent == transmitAlongPath(ns, linkSeq, path, 1, TRUE, <<>>)
                packet == [id |-> source \o "-" \o destination \o "-" \o ToString(i),
                           source |-> source,
                           destination |-> destination,
                           path |-> path,
                           route |-> sent.packetRoute,
                           transmitted |-> sent.packetTransmitted,
                           timestamp |-> ns.simulationStep]
                ns1 == [sent.ns EXCEPT
                          !.packetStats = Append(@, packet),
                          !.nodeStats[destination].packetsReceived = @ + 1]
            IN IF sent.packetTransmitted
               THEN [ns1 EXCEPT !.totalPacketsTransmitted = @ + 1]
               ELSE ns1

\* One iteration of for (let i = 0; i < rate; i++), r the random draw.
generatePacket(ns, linkSeq, source, i, r) ==
    LET destination == getRandomDestination(source, r)
        path == dijkstra(nodes, linkSeq, source, destination)
    IN IF Len(path) < 2 THEN ns
       ELSE LET sent == transmitAlongPath(ns, linkSeq, path, 1, TRUE, <<>>)
                packet == [id |-> source \o "-" \o destination \o "-" \o ToString(i),
                           source |-> source,
                           destination |-> destination,
                           path |-> path,
                           route |-> sent.packetRoute,
                           transmitted |-> sent.packetTransmitted,
                           timestamp |-> ns.simulationStep]
                ns1 == [sent.ns EXCEPT !.packetStats = Append(@, packet)]
            IN IF sent.packetTransmitted
               THEN [ns1 EXCEPT
                        !.nodeStats[destination].packetsReceived = @ + 1,
                        !.totalPacketsTransmitted = @ + 1]
               ELSE ns1

\* for (let i = 0; i < rate; i++) { ... }: loop is the state of the loop, the
\* network state and the counter i.
RECURSIVE generatePackets(_, _, _, _, _, _)
generatePackets(loop, linkSeq, source, rate, rnd, offset) ==
    IF loop.i >= rate THEN loop.ns
    ELSE generatePackets(
            [ns |-> generatePacket(loop.ns, linkSeq, source, loop.i,
                                   rnd[offset + loop.i + 1]),
             i |-> loop.i + 1],
            linkSeq, source, rate, rnd, offset)

\* Object.entries(currentRates).forEach, the entries in the order of nodes;
\* st = [ns, tickPacketsGenerated, threw].  A source with no nodeStats entry
\* makes line 113 throw a TypeError, which ends the tick there.
RECURSIVE generateTraffic(_, _, _, _, _)
generateTraffic(st, linkSeq, currentRates, s, rnd) ==
    IF s > Len(nodes) \/ st.threw THEN st
    ELSE LET source == nodes[s]
             rate == currentRates[source]
         IN IF source \notin DOMAIN st.ns.nodeStats
            THEN [st EXCEPT !.threw = TRUE]
            ELSE LET ns1 == [st.ns EXCEPT
                                !.nodeStats[source].packetsGenerated = @ + rate,
                                !.nodeStats[source].currentLoad = rate]
                 IN generateTraffic(
                        [ns |-> generatePackets([ns |-> ns1, i |-> 0], linkSeq,
                                                source, rate, rnd,
                                                st.tickPacketsGenerated),
                         tickPacketsGenerated |-> st.tickPacketsGenerated + rate,
                         threw |-> FALSE],
                        linkSeq, currentRates, s + 1, rnd)

\* The draws of Math.random one tick makes: one for each packet.
TickDraws(currentRates) == SumOver(currentRates, NodeSet)

\* A variant of simulateTick that adds the packets recorded, not the rates,
\* to totalPacketsGenerated.
simulateTick_countsRecorded(ns, linkSeq, rates, rnd) ==
    IF ns.currentTime \notin DOMAIN rates THEN [ns |-> ns, threw |-> FALSE]
    ELSE LET currentRates == rates[ns.currentTime]
             ns1 == [ns EXCEPT !.linkLoads = EmptyObject, !.packetStats = <<>>]
             ns2 == processQueuedPackets(ns1, linkSeq)
             st == generateTraffic(
                      [ns |-> ns2, tickPacketsGenerated |-> 0, threw |-> FALSE],
                      linkSeq, currentRates, 1, rnd)
         IN IF st.threw THEN [ns |-> st.ns, threw |-> TRUE]
            ELSE [ns |-> [st.ns EXCEPT
                            !.totalPacketsGenerated = @ + Len(st.ns.packetStats),
                            !.simulationStep = @ + 1],
                  threw |-> FALSE]

\* A variant of simulateTick that returns at once when the simulation is
\* not running.
simulateTick_onlyWhenRunning(ns, linkSeq, rates, rnd) ==
    IF ~ns.isRunning \/ ns.currentTime \notin DOMAIN rates
    THEN [ns |-> ns, threw |-> FALSE]
    ELSE LET currentRates == rates[ns.currentTime]
             ns1 == [ns EXCEPT !.linkLoads = EmptyObject, !.packetStats = <<>>]
             ns2 == processQueuedPackets(ns1, linkSeq)
             st == generateTraffic(
                      [ns |-> ns2, tickPacketsGenerated |-> 0, threw |-> FALSE],
                      linkSeq, currentRates, 1, rnd)
         IN IF st.threw THEN [ns |-> st.ns, threw |-> TRUE]
            ELSE [ns |-> [st.ns EXCEPT
                            !.totalPacketsGenerated = @ + st.tickPacketsGenerated,
                            !.simulationStep = @ + 1],
                  threw |-> FALSE]

\* A variant of simulateTick that drains the queues after the traffic of the
\* tick instead of before it.
simulateTick_drainsLast(ns, linkSeq, rates, rnd) ==
    IF ns.currentTime \notin DOMAIN rates THEN [ns |-> ns, threw |-> FALSE]
    ELSE LET currentRates == rates[ns.currentTime]
             ns1 == [ns EXCEPT !.linkLoads = EmptyObject, !.packetStats = <<>>]
             st == generateTraffic(
                      [ns |-> ns1, tickPacketsGenerated |-> 0, threw |-> FALSE],
                      linkSeq, currentRates, 1, rnd)
         IN IF st.threw THEN [ns |-> st.ns, threw |-> TRUE]
            ELSE [ns |-> [processQueuedPackets(st.ns, linkSeq) EXCEPT
                            !.totalPacketsGenerated = @ + st.tickPacketsGenerated,
                            !.simulationStep = @ + 1],
                  threw |-> FALSE]

\* A variant of simulateTick that keeps the packets of the ticks before.
simulateTick_keepsHistory(ns, linkSeq, rates, rnd) ==
    IF ns.currentTime \notin DOMAIN rates THEN [ns |-> ns, threw |-> FALSE]
    ELSE LET currentRates == rates[ns.currentTime]
             ns1 == [ns EXCEPT !.linkLoads = EmptyObject]
             ns2 == processQueuedPackets(ns1, linkSeq)
             st == generateTraffic(
                      [ns |-> ns2, tickPacketsGenerated |-> 0, threw |-> FALSE],
                      linkSeq, currentRates, 1, rnd)
         IN IF st.threw THEN [ns |-> st.ns, threw |-> TRUE]
            ELSE [ns |-> [st.ns EXCEPT
                            !.totalPacketsGenerated = @ + st.tickPacketsGenerated,
                            !.simulationStep = @ + 1],
                  threw |-> FALSE]

\* Returns [ns, threw]; rnd is the sequence of random draws.
simulateTick(ns, linkSeq, rates, rnd) ==
    IF ns.currentTime \notin DOMAIN rates THEN [ns |-> ns, threw |-> FALSE]
    ELSE LET currentRates == rates[ns.currentTime]
             ns1 == [ns EXCEPT !.linkLoads = EmptyObject, !.packetStats = <<>>]
             ns2 == processQueuedPackets(ns1, linkSeq)
             st == generateTraffic(
                      [ns |-> ns2, tickPacketsGenerated |-> 0, threw |-> FALSE],
                      linkSeq, currentRates, 1, rnd)
         IN IF st.threw THEN [ns |-> st.ns, threw |-> TRUE]
            ELSE [ns |-> [st.ns EXCEPT
                            !.totalPacketsGenerated = @ + st.tickPacketsGenerated,
                            !.simulationStep = @ + 1],
                  threw |-> FALSE]

\* (x).toFixed(2) for x = 100 * num / den, in hundredths; 0 / 0 is NaN and
\* n / 0 is Infinity.
toFixed2Percent(num, den) ==
    IF den = 0 THEN (IF num = 0 THEN "NaN" ELSE "Infinity")
    ELSE (2 * 10000 * num + den) \div (2 * den)

getNetworkStats(ns, linkSeq) ==
    LET linkStats == [i \in 1..Len(linkSeq) |->
            LET link == linkSeq[i]
                linkKey == linkKeyOf(link.from, link.to)
                currentLoad == GetOr0(ns.linkLoads, linkKey)
                queueSize == GetOr0(ns.queues, linkKey)
            IN [from |-> link.from, to |-> link.to, capacity |-> link.capacity,
                currentLoad |-> currentLoad,
                utilization |-> toFixed2Percent(currentLoad, link.capacity),
                queueSize |-> queueSize,
                congested |-> (currentLoad >= link.capacity \/ queueSize > 0)]]
    IN [currentTime |-> ns.currentTime,
        simulationStep |-> ns.simulationStep,
        isRunning |-> ns.isRunning,
        nodes |-> [i \in 1..Len(nodes) |->
                      IF nodes[i] \in DOMAIN ns.nodeStats
                      THEN [id |-> nodes[i],
                            packetsGenerated |-> ns.nodeStats[nodes[i]].packetsGenerated,
                            packetsReceived |-> ns.nodeStats[nodes[i]].packetsReceived,
                            currentLoad |-> ns.nodeStats[nodes[i]].currentLoad]
                      ELSE [id |-> nodes[i]]],
        links |-> linkStats,
        packets |-> ns.packetStats,
        summary |->
            [totalPacketsGenerated |-> ns.totalPacketsGenerated,
             totalPacketsTransmitted |-> ns.totalPacketsTransmitted,
             packetLoss |->
                IF ns.totalPacketsGenerated > 0
                THEN toFixed2Percent(
                        ns.totalPacketsGenerated - ns.totalPacketsTransmitted,
                        ns.totalPacketsGenerated)
                ELSE 0,
             \* a quotient: numerator and denominator
             averageQueueSize |->
                <<SumOver(ns.queues, DOMAIN ns.queues), Len(linkSeq)>>]]

\* A variant of startSimulation that also resets the counters and the slot.
startSimulation_resets(ns, linkSeq) ==
    initializeNetwork([ns EXCEPT
        !.isRunning = TRUE,
        !.simulationStep = 0,
        !.currentTime = "08:00",
        !.totalPacketsGenerated = 0,
        !.totalPacketsTransmitted = 0], linkSeq)

\* A variant of startSimulation that begins the totals of the run at 0 and
\* keeps the counters of the nodes.
startSimulation_clearsTotals(ns, linkSeq) ==
    [ns EXCEPT !.isRunning = TRUE,
               !.totalPacketsGenerated = 0,
               !.totalPacketsTransmitted = 0]

startSimulation(ns, linkSeq) ==
    initializeNetwork([ns EXCEPT !.isRunning = TRUE], linkSeq)

\* A variant of pauseSimulation that also initializes the network again.
pauseSimulation_reinitializes(ns) ==
    [ns EXCEPT
        !.isRunning = FALSE,
        !.queues = [k \in DOMAIN ns.queues |-> 0],
        !.linkLoads = [k \in DOMAIN ns.queues |-> 0],
        !.nodeStats = [n \in DOMAIN ns.nodeStats |->
                          [packetsGenerated |-> 0, packetsReceived |-> 0,
                           currentLoad |-> 0]]]

pauseSimulation(ns) == [ns EXCEPT !.isRunning = FALSE]

\* A variant of resetSimulation that does not initialize the network again.
resetSimulation_noInitialize(ns, linkSeq) ==
    [ns EXCEPT
        !.isRunning = FALSE,
        !.simulationStep = 0,
        !.currentTime = "08:00",
        !.totalPacketsGenerated = 0,
        !.totalPacketsTransmitted = 0]

\* A variant of resetSimulation that leaves the running flag as it is.
resetSimulation_keepsRunning(ns, linkSeq) ==
    initializeNetwork([ns EXCEPT
        !.simulationStep = 0,
        !.currentTime = "08:00",
        !.totalPacketsGenerated = 0,
        !.totalPacketsTransmitted = 0], linkSeq)

resetSimulation(ns, linkSeq) ==
    initializeNetwork([ns EXCEPT
        !.isRunning = FALSE,
        !.simulationStep = 0,
        !.currentTime = "08:00",
        !.totalPacketsGenerated = 0,
        !.totalPacketsTransmitted = 0], linkSeq)

\* A variant of updateTrafficRates that writes the rate in every slot.
updateTrafficRates_everySlot(ns, rates, nodeId, newRate) ==
    IF nodeId \in NodeSet /\ ns.currentTime \in DOMAIN rates
    THEN [rates |-> [slot \in DOMAIN rates |->
                        [rates[slot] EXCEPT ![nodeId] = newRate]],
          ret |-> TRUE]
    ELSE [rates |-> rates, ret |-> FALSE]

\* Returns the rate tables after the call and the value returned.
updateTrafficRates(ns, rates, nodeId, newRate) ==
    IF nodeId \in NodeSet /\ ns.currentTime \in DOMAIN rates
    THEN [rates |-> [rates EXCEPT ![ns.currentTime][nodeId] = newRate], ret |-> TRUE]
    ELSE [rates |-> rates, ret |-> FALSE]

\* A variant of updateLinkCapacity that finds the link in either direction.
updateLinkCapacity_eitherDirection(linkSeq, from, to, newCapacity) ==
    LET li == IF findLink(linkSeq, from, to) # 0
              THEN findLink(linkSeq, from, to)
              ELSE findLink(linkSeq, to, from)
    IN IF li # 0
       THEN [links |-> [linkSeq EXCEPT ![li].capacity = newCapacity], ret |-> TRUE]
       ELSE [links |-> linkSeq, ret |-> FALSE]

\* A variant of updateLinkCapacity that gives the new capacity to every link
\* leaving the same node.
updateLinkCapacity_sameOrigin(linkSeq, from, to, newCapacity) ==
    LET li == findLink(linkSeq, from, to) IN
    IF li # 0
    THEN [links |-> [i \in 1..Len(linkSeq) |->
                        IF linkSeq[i].from = from
                        THEN [linkSeq[i] EXCEPT !.capacity = newCapacity]
                        ELSE linkSeq[i]],
          ret |-> TRUE]
    ELSE [links |-> linkSeq, ret |-> FALSE]

\* Returns the links after the call and the value returned.
updateLinkCapacity(linkSeq, from, to, newCapacity) ==
    LET li == findLink(linkSeq, from, to) IN
    IF li # 0
    THEN [links |-> [linkSeq EXCEPT ![li].capacity = newCapacity], ret |-> TRUE]
    ELSE [links |-> linkSeq, ret |-> FALSE]

\* timeSlots.indexOf(currentTime), counted from 1.
slotIndex(slot) == CHOOSE i \in 1..Len(timeSlots) : timeSlots[i] = slot

\* A variant of advanceTimeSlot that wraps to the first slot.
advanceTimeSlot_wraps(ns) ==
    LET currentIndex == slotIndex(ns.currentTime) IN
    [ns EXCEPT !.currentTime = timeSlots[(currentIndex % Len(timeSlots)) + 1]]

\* A variant of advanceTimeSlot that starts the totals of the new slot at 0.
advanceTimeSlot_resetsTotals(ns) ==
    LET currentIndex == slotIndex(ns.currentTime) IN
    IF currentIndex < Len(timeSlots)
    THEN [ns EXCEPT !.currentTime = timeSlots[currentIndex + 1],
                    !.totalPacketsGenerated = 0,
                    !.totalPacketsTransmitted = 0]
    ELSE ns

advanceTimeSlot(ns) ==
    LET currentIndex == slotIndex(ns.currentTime) IN
    IF currentIndex < Len(timeSlots)
    THEN [ns EXCEPT !.currentTime = timeSlots[currentIndex + 1]]
    ELSE ns

(***************************************************************************)
(* Request bodies: JSON numbers in half units.                             *)
(***************************************************************************)
\* !x
Falsy(x2) == x2 = 0

\* parseInt(x): the integer part of the number's decimal text.
parseInt(x2) == IF x2 >= 0 THEN x2 \div 2 ELSE -((-x2) \div 2)

\* The bodies tried: -1, 0, 0.5 and the whole numbers up to max.
Bodies(max) == {-2, 0, 1} \cup {2 * k : k \in 1..max}

\* Node identifiers tried in a request path: a node and one that is no node.
PathNodes == {"A", "Z"}

\* Links tried in a request path: a declared link, its reverse and an
\* undeclared one.
PathLinks == {<<"A", "C">>, <<"C", "A">>, <<"A", "Z">>}

(***************************************************************************)
(* The state after the module is loaded.  The rate tables and capacities   *)
(* of the source are in the tens; the model starts from tables a sequence  *)
(* of administrative updates leaves behind, small enough to enumerate      *)
(* every draw of a tick.                                                   *)
(***************************************************************************)
InitialRates ==
    [slot \in SlotSet |->
        [n \in NodeSet |->
            CASE slot = "08:00" -> (IF n = "A" THEN 2 ELSE 0)
              [] slot = "08:15" -> (IF n = "C" THEN 1 ELSE 0)
              [] slot = "08:30" -> (IF n = "B" THEN 1 ELSE 0)
              [] OTHER -> (IF n = "E" THEN 1 ELSE 0)]]

InitialLinks ==
    << [from |-> "A", to |-> "B", capacity |-> 1],
       [from |-> "A", to |-> "C", capacity |-> 2],
       [from |-> "B", to |-> "D", capacity |-> 1],
       [from |-> "C", to |-> "D", capacity |-> 1],
       [from |-> "C", to |-> "E", capacity |-> 1],
       [from |-> "D", to |-> "E", capacity |-> 1] >>

InitialState ==
    [currentTime |-> "08:00",
     isRunning |-> FALSE,
     simulationStep |-> 0,
     queues |-> EmptyObject,
     linkLoads |-> EmptyObject,
     packetStats |-> <<>>,
     nodeStats |-> EmptyObject,
     totalPacketsGenerated |-> 0,
     totalPacketsTransmitted |-> 0]

NoResponse == [status |-> 0]

EngineInit ==
    /\ networkState = InitialState
    /\ links = InitialLinks
    /\ trafficRates = InitialRates
    /\ response = NoResponse
    /\ advances = 0
    /\ adminOps = 0

RouterIdle ==
    /\ rLinks = <<>>
    /\ rStart = null
    /\ rEnd = null
    /\ rPath = <<>>
    /\ rPath2 = <<>>
    /\ rPhase = "build"
    /\ dj = [pc |-> "idle"]

\* useState(null) of networkData, and the data of a message that has none.
NoData == -1

\* The component as it is mounted, nothing in flight, no handler running.
Unmounted ==
    [isSimulating |-> FALSE, autoRun |-> FALSE, connectionError |-> FALSE,
     loading |-> FALSE, networkData |-> NoData, resetSent |-> FALSE]

Idle == [phase |-> "idle"]

ServiceIdle ==
    /\ driver = Unmounted
    /\ wire = {}
    /\ handler = Idle

Init == EngineInit /\ RouterIdle /\ ServiceIdle

(***************************************************************************)
(* app.js and routes/simulate.js: one action for each handler.             *)
(***************************************************************************)
\* app.js initializes the network before the server listens, so a handler
\* runs on a state that has its nodeStats.
Listening == networkState.nodeStats # EmptyObject

\* app.js: initializeNetwork() before the server listens.
AppStartup ==
    /\ ~Listening
    /\ networkState' = initializeNetwork(networkState, links)
    /\ UNCHANGED <<links, trafficRates, response, advances, adminOps>>
    /\ UNCHANGED routerVars
    /\ UNCHANGED serviceVars

\* A variant of the stats handler that empties the packet history it returned.
GetStats_clearsPackets ==
    /\ Listening
    /\ response' = [status |-> 200]
    /\ networkState' = [networkState EXCEPT !.packetStats = <<>>]
    /\ UNCHANGED <<links, trafficRates, advances, adminOps>>
    /\ UNCHANGED routerVars
    /\ UNCHANGED serviceVars

GetStats ==
    /\ Listening
    /\ response' = [status |-> 200]
    /\ UNCHANGED <<networkState, links, trafficRates, advances, adminOps>>
    /\ UNCHANGED routerVars
    /\ UNCHANGED serviceVars

PostTick ==
    /\ Listening
    /\ networkState.simulationStep < MaxTicks
    /\ \E rnd \in [1..TickDraws(trafficRates[networkState.currentTime]) ->
                      0..(Len(nodes) - 2)] :
          LET res == simulateTick(networkState, links, trafficRates, rnd) IN
          /\ networkState' = res.ns
          /\ response' = [status |-> IF res.threw THEN 500 ELSE 200]
    /\ UNCHANGED <<links, trafficRates, advances, adminOps>>
    /\ UNCHANGED routerVars
    /\ UNCHANGED serviceVars

PostStart ==
    /\ Listening
    /\ networkState' = startSimulation(networkState, links)
    /\ response' = [status |-> 200]
    /\ UNCHANGED <<links, trafficRates, advances, adminOps>>
    /\ UNCHANGED routerVars
    /\ UNCHANGED serviceVars

PostPause ==
    /\ Listening
    /\ networkState' = pauseSimulation(networkState)
    /\ response' = [status |-> 200]
    /\ UNCHANGED <<links, trafficRates, advances, adminOps>>
    /\ UNCHANGED routerVars
    /\ UNCHANGED serviceVars

\* A variant of the reset handler that puts the declared capacities and
\* rates back.
PostReset_restoresDefaults ==
    /\ Listening
    /\ networkState' = resetSimulation(networkState, InitialLinks)
    /\ response' = [status |-> 200]
    /\ advances' = 0
    /\ links' = InitialLinks
    /\ trafficRates' = InitialRates
    /\ UNCHANGED adminOps
    /\ UNCHANGED routerVars
    /\ UNCHANGED serviceVars

PostReset ==
    /\ Listening
    /\ networkState' = resetSimulation(networkState, links)
    /\ response' = [status |-> 200]
    /\ advances' = 0
    /\ UNCHANGED <<links, trafficRates, adminOps>>
    /\ UNCHANGED routerVars
    /\ UNCHANGED serviceVars

PostTraffic(nodeId, rate) ==
    /\ Listening
    /\ adminOps < MaxAdminOps
    /\ IF Falsy(rate) \/ rate < 0
       THEN /\ response' = [status |-> 400]
            /\ UNCHANGED <<trafficRates, adminOps>>
       ELSE LET upd == updateTrafficRates(networkState, trafficRates, nodeId,
                                          parseInt(rate))
            IN /\ trafficRates' = upd.rates
               /\ response' = [status |-> IF upd.ret THEN 200 ELSE 404]
               /\ adminOps' = IF upd.ret THEN adminOps + 1 ELSE adminOps
    /\ UNCHANGED <<networkState, links, advances>>
    /\ UNCHANGED routerVars
    /\ UNCHANGED serviceVars

PostLinkCapacity(from, to, capacity) ==
    /\ Listening
    /\ adminOps < MaxAdminOps
    /\ IF Falsy(capacity) \/ capacity <= 0
       THEN /\ response' = [status |-> 400]
            /\ UNCHANGED <<links, adminOps>>
       ELSE LET upd == updateLinkCapacity(links, from, to, parseInt(capacity))
            IN /\ links' = upd.links
               /\ response' = [status |-> IF upd.ret THEN 200 ELSE 404]
               /\ adminOps' = IF upd.ret THEN adminOps + 1 ELSE adminOps
    /\ UNCHANGED <<networkState, trafficRates, advances>>
    /\ UNCHANGED routerVars
    /\ UNCHANGED serviceVars

PostAdvanceTime ==
    /\ Listening
    /\ networkState' = advanceTimeSlot(networkState)
    /\ response' = [status |-> 200]
    /\ advances' = Min(advances + 1, MaxAdvances)
    /\ UNCHANGED <<links, trafficRates, adminOps>>
    /\ UNCHANGED routerVars
    /\ UNCHANGED serviceVars

Next ==
    \/ AppStartup
    \/ GetStats
    \/ PostTick
    \/ PostStart
    \/ PostPause
    \/ PostReset
    \/ \E nodeId \in PathNodes, rate \in Bodies(MaxRate) : PostTraffic(nodeId, rate)
    \/ \E link \in PathLinks, capacity \in Bodies(MaxCapacity) :
          PostLinkCapacity(link[1], link[2], capacity)
    \/ PostAdvanceTime

Spec == Init /\ [][Next]_vars

(***************************************************************************)
(* The router on its own: dijkstra(nodes, links, start, end) called on     *)
(* link lists over the node set, built one link at a time, and called      *)
(* again after the capacity of one link was changed.                       *)
(***************************************************************************)
\* The position of a node in nodes.
nodeIndex(n) == CHOOSE i \in 1..Len(nodes) : nodes[i] = n

\* A link list is built in a fixed order of its pairs of nodes.
PairBefore(f1, t1, f2, t2) ==
    \/ nodeIndex(f1) < nodeIndex(f2)
    \/ nodeIndex(f1) = nodeIndex(f2) /\ nodeIndex(t1) < nodeIndex(t2)

RouterAddLink(from, to) ==
    /\ rPhase = "build"
    /\ Len(rLinks) < MaxRouterLinks
    /\ nodeIndex(from) < nodeIndex(to)
    /\ rLinks # <<>> =>
          PairBefore(rLinks[Len(rLinks)].from, rLinks[Len(rLinks)].to, from, to)
    /\ rLinks' = Append(rLinks, [from |-> from, to |-> to, capacity |-> 1])
    /\ UNCHANGED <<rStart, rEnd, rPath, rPath2, rPhase, dj>>
    /\ UNCHANGED engineVars
    /\ UNCHANGED serviceVars

RouterRoute(start, end) ==
    /\ rPhase = "build"
    /\ rStart' = start
    /\ rEnd' = end
    /\ rPath' = dijkstra(nodes, rLinks, start, end)
    /\ rPhase' = "routed"
    /\ UNCHANGED <<rLinks, rPath2, dj>>
    /\ UNCHANGED engineVars
    /\ UNCHANGED serviceVars

RouterChangeCapacity(i) ==
    /\ rPhase = "routed"
    /\ i \in 1..Len(rLinks)
    /\ rLinks' = [rLinks EXCEPT ![i].capacity = @ + 1]
    /\ rPath2' = dijkstra(nodes, rLinks', rStart, rEnd)
    /\ rPhase' = "rerouted"
    /\ UNCHANGED <<rStart, rEnd, rPath, dj>>
    /\ UNCHANGED engineVars
    /\ UNCHANGED serviceVars

RouterNext ==
    \/ \E from \in NodeSet, to \in NodeSet : RouterAddLink(from, to)
    \/ \E start \in NodeSet, end \in NodeSet : RouterRoute(start, end)
    \/ \E i \in 1..MaxRouterLinks : RouterChangeCapacity(i)

SpecRouter == Init /\ [][RouterNext]_vars

(***************************************************************************)
(* The backlog scenario, on the capacities of the source.  The server has  *)
(* started; the capacity of D-E was set to 0 (the body 0.5) and the rate   *)
(* of D to 75; two ticks drew E for every packet of D, which leaves 150    *)
(* packets in the queue of D-E and none transmitted; the capacity of D-E   *)
(* was then set back to 60 and the rates of the slot to one packet for A   *)
(* and one for D.  From there the scenario runs ticks.                     *)
(***************************************************************************)
DefaultLinks ==
    << [from |-> "A", to |-> "B", capacity |-> 100],
       [from |-> "A", to |-> "C", capacity |-> 80],
       [from |-> "B", to |-> "D", capacity |-> 70],
       [from |-> "C", to |-> "D", capacity |-> 90],
       [from |-> "C", to |-> "E", capacity |-> 100],
       [from |-> "D", to |-> "E", capacity |-> 60] >>

BurstLinks == updateLinkCapacity(DefaultLinks, "D", "E", parseInt(1)).links

BurstRates ==
    [InitialRates EXCEPT
        !["08:00"] = [n \in NodeSet |-> IF n = "D" THEN 75 ELSE 0]]

BacklogRates ==
    [InitialRates EXCEPT
        !["08:00"] = [n \in NodeSet |-> IF n \in {"A", "D"} THEN 1 ELSE 0]]

\* The draw that makes D choose E: the last of A, B, C, E.
BurstDraws == [k \in 1..TickDraws(BurstRates["08:00"]) |-> Len(nodes) - 2]

BurstTick(ns) == simulateTick(ns, BurstLinks, BurstRates, BurstDraws).ns

BacklogInit ==
    /\ links = DefaultLinks
    /\ trafficRates = BacklogRates
    /\ networkState =
          BurstTick(BurstTick(initializeNetwork(InitialState, DefaultLinks)))
    /\ response = [status |-> 200]
    /\ advances = 0
    /\ adminOps = 4
    /\ RouterIdle
    /\ ServiceIdle

BacklogTick ==
    /\ networkState.simulationStep < MaxBacklogTicks
    /\ \E rnd \in [1..TickDraws(trafficRates[networkState.currentTime]) ->
                      0..(Len(nodes) - 2)] :
          LET res == simulateTick(networkState, links, trafficRates, rnd) IN
          /\ networkState' = res.ns
          /\ response' = [status |-> IF res.threw THEN 500 ELSE 200]
    /\ UNCHANGED <<links, trafficRates, advances, adminOps>>
    /\ UNCHANGED routerVars
    /\ UNCHANGED serviceVars

SpecBacklog == BacklogInit /\ [][BacklogTick]_vars

(***************************************************************************)
(* Properties.                                                             *)
(***************************************************************************)
\* A step that is a completed tick: only simulateTick increments the counter.
IsTickStep == networkState'.simulationStep = networkState.simulationStep + 1

\* The capacity of the declared link with this key.
CapacityOfKey(linkSeq, linkKey) == linkSeq[findLinkByKey(linkSeq, linkKey)].capacity

\* The hops of the recorded packets that failed on the link with this key.
RECURSIVE FailedHops(_, _)
FailedHops(packets, linkKey) ==
    IF packets = <<>> THEN 0
    ELSE Cardinality({j \in 1..Len(packets[1].route) :
                         /\ packets[1].route[j].linkKey = linkKey
                         /\ ~packets[1].route[j].transmitted})
         + FailedHops(Tail(packets), linkKey)

\* The recorded packets marked transmitted.
TransmittedPackets(packets) ==
    Cardinality({j \in 1..Len(packets) : packets[j].transmitted})

\* C1: in every reachable state the cumulative transmitted count is at most
\* the cumulative generated count.
C1_TransmittedAtMostGenerated ==
    networkState.totalPacketsTransmitted <= networkState.totalPacketsGenerated

\* C2: at the end of every tick, the recorded load of every link is at most
\* the capacity of that link, and only declared links have a load.
C2_LoadWithinCapacityAfterTick ==
    [][IsTickStep =>
          /\ DOMAIN networkState'.linkLoads \subseteq LinkKeys(links')
          /\ \A k \in DOMAIN networkState'.linkLoads :
                networkState'.linkLoads[k] <= CapacityOfKey(links', k)]_vars

\* A tick has filled a link of positive capacity and queued the excess.
C2_Witness ==
    /\ networkState.simulationStep > 0
    /\ \E k \in DOMAIN networkState.linkLoads :
          /\ CapacityOfKey(links, k) > 0
          /\ networkState.linkLoads[k] = CapacityOfKey(links, k)
          /\ FailedHops(networkState.packetStats, k) > 0

\* C3: in every reachable state the recorded load of every link is at most
\* the current capacity of that link.
C3_LoadWithinCapacityAlways ==
    \A k \in DOMAIN networkState.linkLoads :
        k \in LinkKeys(links) =>
            networkState.linkLoads[k] <= CapacityOfKey(links, k)

\* What getStats reports right after a reset.
ResetSnapshotClean ==
    LET stats == getNetworkStats(networkState, links) IN
    /\ stats.simulationStep = 0
    /\ stats.currentTime = "08:00"
    /\ stats.isRunning = FALSE
    /\ stats.summary.totalPacketsGenerated = 0
    /\ stats.summary.totalPacketsTransmitted = 0
    /\ \A i \in 1..Len(stats.nodes) :
          /\ stats.nodes[i].packetsGenerated = 0
          /\ stats.nodes[i].packetsReceived = 0
          /\ stats.nodes[i].currentLoad = 0
    /\ \A i \in 1..Len(stats.links) : stats.links[i].queueSize = 0

\* C4: a reset followed by getStats reports tick counter 0, the first slot,
\* not running, both totals 0, every node counter 0 and every queue 0.
C4_ResetSnapshot == [][PostReset => ResetSnapshotClean']_vars

\* A reset has acted on a state that had ticked: the counters are back at
\* zero while the packets of the last tick are still there.
C4_Witness ==
    /\ networkState.simulationStep = 0
    /\ networkState.packetStats # <<>>
    /\ ResetSnapshotClean

\* C5: after a reset the packet history getStats exposes is empty.
C5_ResetClearsHistory ==
    [][PostReset => getNetworkStats(networkState', links').packets = <<>>]_vars

\* C6: the slot is the first slot advanced once for each advance-time request
\* since the last reset, and stays at the last slot from then on.
C6_AdvanceSaturates ==
    /\ slotIndex(networkState.currentTime) = Min(1 + advances, Len(timeSlots))
    /\ advances >= Len(timeSlots) => networkState.currentTime = "08:45"

\* As many advance-time requests as there are slots have been handled.
C6_Witness ==
    /\ advances >= Len(timeSlots)
    /\ networkState.currentTime = "08:45"

\* What the drain of one tick releases from a queue of q at capacity c.
Released(q, c) == IF q > 0 THEN Min(q, c) ELSE 0

\* Each tick takes min(queue, capacity) from every queue, adds that to the
\* transmitted total, and then queues the hops of the tick that failed.
DrainLaw ==
    IsTickStep =>
        LET q == networkState.queues
            rel == [k \in DOMAIN q |-> Released(q[k], CapacityOfKey(links, k))]
        IN /\ DOMAIN networkState'.queues = DOMAIN q
           /\ \A k \in DOMAIN q :
                 networkState'.queues[k] =
                    q[k] - rel[k] + FailedHops(networkState'.packetStats, k)
           /\ networkState'.totalPacketsTransmitted =
                 networkState.totalPacketsTransmitted
                 + SumOver(rel, DOMAIN rel)
                 + TransmittedPackets(networkState'.packetStats)

\* What is left of a queue of q after n drains at capacity c.
RECURSIVE QueueAfter(_, _, _)
QueueAfter(q, c, n) ==
    IF n = 0 THEN q ELSE QueueAfter(q - Released(q, c), c, n - 1)

\* C7: the drain releases exactly min(queue, capacity) from each queue and
\* adds it to the transmitted total; the queue of 150 on D-E (capacity 60),
\* which gets no new overflow, holds 90 after one tick, 30 after two and is
\* empty after the third.
C7_DrainExactlyMin ==
    /\ [][DrainLaw]_vars
    /\ [](networkState.queues["D-E"] =
             QueueAfter(150, 60, networkState.simulationStep - 2))
    /\ [](networkState.simulationStep = 3 => networkState.queues["D-E"] = 90)
    /\ [](networkState.simulationStep = 4 => networkState.queues["D-E"] = 30)
    /\ [](networkState.simulationStep = 5 => networkState.queues["D-E"] = 0)

\* Two ticks after the bursts the queue of D-E (capacity 60) holds 30
\* packets, and the traffic of the tick has put a load on the link.
C7_Witness ==
    /\ networkState.simulationStep = 4
    /\ networkState.queues["D-E"] = 30
    /\ CapacityOfKey(links, "D-E") = 60
    /\ GetOr0(networkState.linkLoads, "D-E") > 0

\* C8: in one tick, what the drain releases from a link plus the load the
\* new traffic of that tick puts on the link is at most the capacity.
C8_DrainPlusLoadWithinCapacity ==
    [][IsTickStep =>
          \A k \in DOMAIN networkState.queues :
              Released(networkState.queues[k], CapacityOfKey(links, k))
              + GetOr0(networkState'.linkLoads, k) <= CapacityOfKey(links, k)]_vars

\* The nodes one hop or less away from a node of the set, links taken in
\* either direction.
Neighbourhood(linkSeq, reached) ==
    reached \cup
    {n \in NodeSet : \E i \in 1..Len(linkSeq), m \in reached :
        \/ linkSeq[i].from = m /\ linkSeq[i].to = n
        \/ linkSeq[i].to = m /\ linkSeq[i].from = n}

\* Breadth first: the least number of hops from the set reached (which is d
\* hops or less from the source) to the target, Infinity when there is none.
RECURSIVE HopsFrom(_, _, _, _)
HopsFrom(linkSeq, reached, target, d) ==
    IF target \in reached THEN d
    ELSE IF Neighbourhood(linkSeq, reached) = reached THEN Infinity
    ELSE HopsFrom(linkSeq, Neighbourhood(linkSeq, reached), target, d + 1)

HopDistance(linkSeq, source, destination) ==
    HopsFrom(linkSeq, {source}, destination, 0)

\* Two nodes are joined by a declared link, in either direction.
Joined(linkSeq, a, b) == findLink(linkSeq, a, b) # 0 \/ findLink(linkSeq, b, a) # 0

\* C9: for a source and a destination connected in the undirected graph of
\* the links, the router returns a path that starts at the source, ends at
\* the destination, joins each consecutive pair by a link in either
\* direction and has the least possible number of hops; changing a capacity
\* does not change the path.
C9_RouterShortestPath ==
    (rPhase # "build" /\ HopDistance(rLinks, rStart, rEnd) # Infinity) =>
        /\ Len(rPath) >= 1
        /\ rPath[1] = rStart
        /\ rPath[Len(rPath)] = rEnd
        /\ \A j \in 1..(Len(rPath) - 1) : Joined(rLinks, rPath[j], rPath[j + 1])
        /\ Len(rPath) - 1 = HopDistance(rLinks, rStart, rEnd)
        /\ rPhase = "rerouted" => rPath2 = rPath

\* The router has returned a path of three hops that runs against the
\* declared direction of its links, and again after a capacity was changed.
C9_Witness ==
    /\ rPhase = "rerouted"
    /\ Len(rPath) = 4
    /\ nodeIndex(rStart) > nodeIndex(rEnd)
    /\ HopDistance(rLinks, rStart, rEnd) = 3

\* The recorded packets from A to E.
PacketsAtoE ==
    {j \in 1..Len(networkState.packetStats) :
        /\ networkState.packetStats[j].source = "A"
        /\ networkState.packetStats[j].destination = "E"}

\* C10: on the default topology the router's path from A to E is A, C, E,
\* a shortest path by hop count, and it is the path of every packet the
\* engine sends from A to E.
C10_DefaultPathAtoE ==
    links = DefaultLinks =>
        /\ dijkstra(nodes, links, "A", "E") = <<"A", "C", "E">>
        /\ HopDistance(links, "A", "E") = 2
        /\ \A j \in PacketsAtoE :
              networkState.packetStats[j].path = <<"A", "C", "E">>

\* A tick on the default topology has sent a packet from A to E.
C10_Witness ==
    /\ links = DefaultLinks
    /\ \E j \in PacketsAtoE :
          /\ networkState.packetStats[j].path = <<"A", "C", "E">>
          /\ networkState.packetStats[j].transmitted

(***************************************************************************)
(* The engine on other topologies: the module's links are a sub-list of    *)
(* the declared ones (a deployment that declares fewer links), the server  *)
(* has started, and ticks and advance-time requests follow.                *)
(***************************************************************************)
TopologyInit ==
    /\ \E keep \in SUBSET LinkKeys(InitialLinks) :
          links = SelectSeq(InitialLinks,
                            LAMBDA l : linkKeyOf(l.from, l.to) \in keep)
    /\ trafficRates = InitialRates
    /\ networkState = initializeNetwork(InitialState, links)
    /\ response = NoResponse
    /\ advances = 0
    /\ adminOps = 0
    /\ RouterIdle
    /\ ServiceIdle

TopologyNext ==
    \/ PostTick
    \/ PostAdvanceTime

SpecTopology == TopologyInit /\ [][TopologyNext]_vars

\* The destination can be reached from the source over the links taken in
\* either direction.
Reachable(linkSeq, source, destination) ==
    HopDistance(linkSeq, source, destination) # Infinity

\* The hops of the recorded packets over the link with this key.
RECURSIVE HopsOver(_, _)
HopsOver(packets, linkKey) ==
    IF packets = <<>> THEN 0
    ELSE Cardinality({j \in 1..Len(packets[1].route) :
                         packets[1].route[j].linkKey = linkKey})
         + HopsOver(Tail(packets), linkKey)

\* The recorded packets that reached this node.
ReceivedBy(packets, n) ==
    Cardinality({j \in 1..Len(packets) :
                    packets[j].transmitted /\ packets[j].destination = n})

\* After a tick the loads of the links and the received counters of the
\* nodes are those of the recorded packets, and of nothing else.
RecordedPacketsLaw ==
    IsTickStep =>
        /\ \A k \in LinkKeys(links) :
              GetOr0(networkState'.linkLoads, k) =
                 Min(CapacityOfKey(links, k), HopsOver(networkState'.packetStats, k))
        /\ DOMAIN networkState'.linkLoads \subseteq LinkKeys(links)
        /\ \A n \in NodeSet :
              networkState'.nodeStats[n].packetsReceived =
                 networkState.nodeStats[n].packetsReceived
                 + ReceivedBy(networkState'.packetStats, n)

\* C11: for a destination that cannot be reached from the source the router
\* returns the empty sequence, and the tick drops the draw: every packet
\* recorded has a reachable destination, and the loads, queues, received
\* counters and the transmitted total change by the recorded packets alone.
C11_UnreachableDrawDiscarded ==
    /\ [](\A s \in NodeSet, d \in NodeSet :
             ~Reachable(links, s, d) => dijkstra(nodes, links, s, d) = <<>>)
    /\ [][IsTickStep =>
             \A j \in 1..Len(networkState'.packetStats) :
                /\ Len(networkState'.packetStats[j].path) >= 2
                /\ Reachable(links, networkState'.packetStats[j].source,
                             networkState'.packetStats[j].destination)]_vars
    /\ [][DrainLaw /\ RecordedPacketsLaw]_vars

\* The first tick drew two destinations for A, one that A reaches and one
\* that it does not: one packet is recorded.
C11_Witness ==
    /\ networkState.simulationStep = 1
    /\ networkState.currentTime = "08:00"
    /\ networkState.totalPacketsGenerated = 2
    /\ Len(networkState.packetStats) = 1
    /\ \E d \in NodeSet : ~Reachable(links, "A", d)

\* The values of Math.floor(Math.random() * availableNodes.length).
DrawSet == 0..(Len(nodes) - 2)

\* C12: every destination the generator draws is a node other than the
\* source, so the router is never asked for a path from a node to itself,
\* and every recorded packet has a destination other than its source.
C12_DestinationDiffersFromSource ==
    /\ \A s \in NodeSet, r \in DrawSet :
          getRandomDestination(s, r) \in NodeSet \ {s}
    /\ \A j \in 1..Len(networkState.packetStats) :
          /\ networkState.packetStats[j].source #
                networkState.packetStats[j].destination
          /\ networkState.packetStats[j].path[1] #
                networkState.packetStats[j].path[
                    Len(networkState.packetStats[j].path)]

\* A tick has recorded two packets of one source with two destinations.
C12_Witness ==
    /\ Len(networkState.packetStats) = 2
    /\ networkState.packetStats[1].source = networkState.packetStats[2].source
    /\ networkState.packetStats[1].destination #
          networkState.packetStats[2].destination

\* The recorded packets of this source.
RecordedFrom(packets, n) ==
    Cardinality({j \in 1..Len(packets) : packets[j].source = n})

\* C13: a tick adds the rate of each node in the active slot to the node's
\* packetsGenerated and the sum of those rates to totalPacketsGenerated,
\* whatever becomes of the draws; a node records one packet for each draw
\* that is not dropped, which is all of them when it reaches every node.
C13_TickGeneratesRates ==
    [][IsTickStep =>
          LET currentRates == trafficRates[networkState.currentTime] IN
          /\ \A n \in NodeSet :
                /\ networkState'.nodeStats[n].packetsGenerated =
                      networkState.nodeStats[n].packetsGenerated + currentRates[n]
                /\ RecordedFrom(networkState'.packetStats, n) <= currentRates[n]
                /\ (\A d \in NodeSet : Reachable(links, n, d)) =>
                      RecordedFrom(networkState'.packetStats, n) = currentRates[n]
          /\ networkState'.totalPacketsGenerated =
                networkState.totalPacketsGenerated
                + SumOver(currentRates, NodeSet)]_vars

\* The first tick dropped one draw of A and recorded the other, which was
\* not transmitted; both count as generated.
C13_Witness ==
    /\ networkState.simulationStep = 1
    /\ networkState.currentTime = "08:00"
    /\ networkState.nodeStats["A"].packetsGenerated = 2
    /\ networkState.totalPacketsGenerated = 2
    /\ networkState.totalPacketsTransmitted = 0
    /\ Len(networkState.packetStats) = 1

\* In this state a tick, whatever it draws, completes one step: the counter
\* grows by one, a fresh batch of packets is recorded and the running flag
\* stays as it is.
TickCompletesOneStep ==
    Listening =>
        \A rnd \in [1..TickDraws(trafficRates[networkState.currentTime]) -> DrawSet] :
            LET res == simulateTick(networkState, links, trafficRates, rnd) IN
            /\ ~res.threw
            /\ res.ns.simulationStep = networkState.simulationStep + 1
            /\ res.ns.isRunning = networkState.isRunning
            /\ Len(res.ns.packetStats) =
                  TickDraws(trafficRates[networkState.currentTime])
            /\ \A j \in 1..Len(res.ns.packetStats) :
                  res.ns.packetStats[j].timestamp = networkState.simulationStep

\* The handlers other than tick and reset.
OtherHandlers ==
    \/ AppStartup
    \/ GetStats
    \/ PostStart
    \/ PostPause
    \/ PostAdvanceTime
    \/ \E nodeId \in PathNodes, rate \in Bodies(MaxRate) : PostTraffic(nodeId, rate)
    \/ \E link \in PathLinks, capacity \in Bodies(MaxCapacity) :
          PostLinkCapacity(link[1], link[2], capacity)

\* C14: a tick completes one step whether the simulation is running or not
\* and adds exactly one to simulationStep; reset sets the counter to 0 and
\* no other handler changes it.
C14_TickIgnoresRunningFlag ==
    /\ []TickCompletesOneStep
    /\ [][networkState'.simulationStep # networkState.simulationStep =>
             \/ IsTickStep
             \/ networkState'.simulationStep = 0 /\ PostReset]_vars
    /\ [][OtherHandlers =>
             networkState'.simulationStep = networkState.simulationStep]_vars

\* Two ticks have completed and the simulation is not running.
C14_Witness ==
    /\ networkState.simulationStep = 2
    /\ ~networkState.isRunning
    /\ Len(networkState.packetStats) = 2
    /\ \A j \in 1..2 : networkState.packetStats[j].timestamp = 1

\* The counters of every node, the load of every link and every queue are 0.
NodesAndLinksZero(ns, linkSeq) ==
    /\ DOMAIN ns.nodeStats = NodeSet
    /\ \A n \in NodeSet :
          /\ ns.nodeStats[n].packetsGenerated = 0
          /\ ns.nodeStats[n].packetsReceived = 0
          /\ ns.nodeStats[n].currentLoad = 0
    /\ DOMAIN ns.linkLoads = LinkKeys(linkSeq)
    /\ DOMAIN ns.queues = LinkKeys(linkSeq)
    /\ \A k \in LinkKeys(linkSeq) : ns.linkLoads[k] = 0 /\ ns.queues[k] = 0

\* C15: start sets the running flag from any state and sets the counters of
\* the nodes, the loads of the links and the queues to zero; it leaves the
\* two totals, the tick counter and the time slot as they are.
C15_StartKeepsTotals ==
    [][PostStart =>
          /\ networkState'.isRunning
          /\ NodesAndLinksZero(networkState', links')
          /\ networkState'.totalPacketsGenerated =
                networkState.totalPacketsGenerated
          /\ networkState'.totalPacketsTransmitted =
                networkState.totalPacketsTransmitted
          /\ networkState'.simulationStep = networkState.simulationStep
          /\ networkState'.currentTime = networkState.currentTime
          /\ UNCHANGED <<links, trafficRates>>]_vars

\* A start has acted after ticks and an advance of the slot: the simulation
\* runs, the nodes and links are at zero, the totals, the tick counter and
\* the slot are not.
C15_Witness ==
    /\ networkState.isRunning
    /\ NodesAndLinksZero(networkState, links)
    /\ networkState.totalPacketsGenerated > 0
    /\ networkState.totalPacketsTransmitted > 0
    /\ networkState.simulationStep = 2
    /\ networkState.currentTime = "08:15"

\* C16: pause sets the running flag to false and changes nothing else: the
\* slot, the tick counter, the totals, the counters of the nodes, the loads,
\* the queues and the packet history are as before.
C16_PauseChangesOnlyFlag ==
    [][PostPause =>
          /\ ~networkState'.isRunning
          /\ networkState' = [networkState EXCEPT !.isRunning = FALSE]
          /\ UNCHANGED <<links, trafficRates>>]_vars

\* A pause has acted on a simulation that was started after a tick and has
\* ticked since: it is not running, its totals are ahead of the counters of
\* its nodes, and a link is loaded.
C16_Witness ==
    /\ ~networkState.isRunning
    /\ networkState.simulationStep = 2
    /\ networkState.totalPacketsGenerated >
          SumOver([n \in NodeSet |-> networkState.nodeStats[n].packetsGenerated],
                  NodeSet)
    /\ networkState.packetStats # <<>>
    /\ \E k \in DOMAIN networkState.linkLoads : networkState.linkLoads[k] > 0

\* The answer to a request that names something that does not exist: 404
\* when the value passes the validation, 400 when it does not.
NotFoundAnswer(valueValid) ==
    /\ response'.status = IF valueValid THEN 404 ELSE 400
    /\ UNCHANGED <<networkState, links, trafficRates>>

\* C17: an update of the rate of a node that is not in the node set, or of
\* the capacity of a pair that is not a declared link (the reverse of a
\* declared link included), is answered with a failure and leaves the rate
\* tables, the capacities and the simulation state as they are.
C17_UnknownTargetChangesNothing ==
    /\ [][\A nodeId \in PathNodes \ NodeSet, rate \in Bodies(MaxRate) :
             PostTraffic(nodeId, rate) =>
                NotFoundAnswer(~Falsy(rate) /\ rate >= 0)]_vars
    /\ [][\A link \in PathLinks, capacity \in Bodies(MaxCapacity) :
             (/\ linkKeyOf(link[1], link[2]) \notin LinkKeys(links)
              /\ PostLinkCapacity(link[1], link[2], capacity)) =>
                NotFoundAnswer(~Falsy(capacity) /\ capacity > 0)]_vars

\* A request was answered 404 after two ticks; nothing has been updated.
C17_Witness ==
    /\ response.status = 404
    /\ networkState.simulationStep = 2
    /\ adminOps = 0
    /\ links = InitialLinks
    /\ trafficRates = InitialRates

\* C18: no link has a capacity of 0 or less and no entry of a rate table is
\* negative, since an update with such a value is refused.
C18_CapacitiesPositiveRatesNonnegative ==
    /\ \A i \in 1..Len(links) : links[i].capacity > 0
    /\ \A slot \in DOMAIN trafficRates, n \in NodeSet :
          trafficRates[slot][n] >= 0

\* C19: an update of the rate of an existing node to 0 is accepted: it is
\* answered 200 and the entry of the node in the active slot becomes 0.
C19_ZeroRateAccepted ==
    [][\A nodeId \in PathNodes \cap NodeSet :
          PostTraffic(nodeId, 0) =>
             /\ response'.status = 200
             /\ trafficRates'[networkState.currentTime][nodeId] = 0]_vars

\* C20: an update of a rate that succeeds writes the entry of that node in
\* the table of the active slot; the entries of the other nodes, the tables
\* of the other slots, the capacities and the simulation state stay as they
\* are.
C20_RateUpdateChangesOneEntry ==
    [][\A nodeId \in PathNodes, rate \in Bodies(MaxRate) :
          (PostTraffic(nodeId, rate) /\ response'.status = 200) =>
             /\ trafficRates'[networkState.currentTime][nodeId] = parseInt(rate)
             /\ \A slot \in SlotSet, n \in NodeSet :
                   (slot # networkState.currentTime \/ n # nodeId) =>
                      trafficRates'[slot][n] = trafficRates[slot][n]
             /\ DOMAIN trafficRates' = DOMAIN trafficRates
             /\ UNCHANGED <<networkState, links>>]_vars

\* The rate of A was updated in the second slot after a tick: that entry
\* differs from the initial table and no other does.
C20_Witness ==
    /\ response.status = 200
    /\ adminOps = 1
    /\ networkState.simulationStep > 0
    /\ trafficRates["08:15"]["A"] = 1
    /\ trafficRates = [InitialRates EXCEPT !["08:15"]["A"] = 1]
    /\ links = InitialLinks

PacketRecordConsistent(p) ==
    /\ Len(p.route) = Len(p.path) - 1
    /\ \A j \in 1..Len(p.route) :
          /\ p.route[j].from = p.path[j]
          /\ p.route[j].to = p.path[j + 1]
          /\ p.route[j].linkKey = linkKeyOf(p.path[j], p.path[j + 1])
    /\ p.transmitted <=> \A j \in 1..Len(p.route) : p.route[j].transmitted

\* C22: a packet is recorded as transmitted only if every hop of its path
\* got capacity; in a tick the received counter of a node grows by the
\* packets recorded as transmitted to it, and the transmitted total by the
\* packets recorded as transmitted and by what the drain released.
C22_TransmittedOnlyIfEveryHop ==
    /\ [](\A j \in 1..Len(networkState.packetStats) :
             PacketRecordConsistent(networkState.packetStats[j]))
    /\ [][IsTickStep =>
             /\ \A n \in NodeSet :
                   networkState'.nodeStats[n].packetsReceived =
                      networkState.nodeStats[n].packetsReceived
                      + ReceivedBy(networkState'.packetStats, n)
             /\ networkState'.totalPacketsTransmitted =
                   networkState.totalPacketsTransmitted
                   + SumOver([k \in DOMAIN networkState.queues |->
                                 Released(networkState.queues[k],
                                          CapacityOfKey(links, k))],
                             DOMAIN networkState.queues)
                   + TransmittedPackets(networkState'.packetStats)]_vars

\* A tick recorded a packet whose first hop got capacity and whose second
\* did not: it is not transmitted and its destination received nothing.
C22_Witness ==
    /\ networkState.simulationStep = 1
    /\ \E j \in 1..Len(networkState.packetStats) :
          LET p == networkState.packetStats[j] IN
          /\ Len(p.route) = 2
          /\ p.route[1].transmitted
          /\ ~p.route[2].transmitted
          /\ ~p.transmitted
          /\ networkState.nodeStats[p.destination].packetsReceived
                < RecordedFrom(networkState.packetStats, p.source)

(***************************************************************************)
(* updateLinkLoad alone: calls with any packet count on the links A-B and  *)
(* A-C, between them the capacity changes and the clearing of the loads    *)
(* that the handlers make.                                                 *)
(***************************************************************************)
CallLinks == {<<"A", "B">>, <<"A", "C">>}

LinkLoadInit ==
    /\ networkState \in {InitialState, initializeNetwork(InitialState, InitialLinks)}
    /\ links = InitialLinks
    /\ trafficRates = InitialRates
    /\ response = NoResponse
    /\ advances = 0
    /\ adminOps = 0
    /\ RouterIdle
    /\ ServiceIdle

\* updateLinkLoad(linkKey, packets); the answer keeps the arguments and
\* the value returned.
LinkLoadCall ==
    /\ \E l \in CallLinks, packets \in 1..MaxCallPackets :
          LET linkKey == linkKeyOf(l[1], l[2])
              upd == updateLinkLoad(networkState, links, linkKey, packets)
          IN /\ GetOr0(networkState.queues, linkKey) + packets <= MaxCallQueue
             /\ networkState' = upd.ns
             /\ response' = [status |-> 0, linkKey |-> linkKey,
                             packets |-> packets, ret |-> upd.ret]
    /\ UNCHANGED <<links, trafficRates, advances, adminOps>>
    /\ UNCHANGED routerVars
    /\ UNCHANGED serviceVars

\* updateLinkCapacity(from, to, newCapacity) between two calls.
LinkLoadCapacity ==
    /\ \E l \in CallLinks, newCapacity \in 0..MaxCallCapacity :
          links' = updateLinkCapacity(links, l[1], l[2], newCapacity).links
    /\ links' # links
    /\ UNCHANGED <<networkState, trafficRates, response, advances, adminOps>>
    /\ UNCHANGED routerVars
    /\ UNCHANGED serviceVars

\* networkState.linkLoads = {} at the start of a tick.
LinkLoadClear ==
    /\ networkState.linkLoads # EmptyObject
    /\ networkState' = [networkState EXCEPT !.linkLoads = EmptyObject]
    /\ UNCHANGED <<links, trafficRates, response, advances, adminOps>>
    /\ UNCHANGED routerVars
    /\ UNCHANGED serviceVars

LinkLoadNext ==
    \/ LinkLoadCall
    \/ LinkLoadCapacity
    \/ LinkLoadClear

SpecLinkLoad == LinkLoadInit /\ [][LinkLoadNext]_vars

\* C23: updateLinkLoad(link, n) on a declared link with load L and capacity
\* C sets the load to L + n, keeps the queue and returns true when
\* L + n <= C; otherwise it sets the load to C, adds L + n - C to the queue
\* of that link and returns false.  No other link is touched.
C23_UpdateLinkLoadLaw ==
    [][LinkLoadCall =>
          LET k == response'.linkKey
              n == response'.packets
              L == GetOr0(networkState.linkLoads, k)
              C == CapacityOfKey(links, k)
          IN /\ IF L + n <= C
                THEN /\ networkState'.linkLoads[k] = L + n
                     /\ networkState'.queues = networkState.queues
                     /\ response'.ret = TRUE
                ELSE /\ networkState'.linkLoads[k] = C
                     /\ networkState'.queues[k] =
                           GetOr0(networkState.queues, k) + (L + n - C)
                     /\ response'.ret = FALSE
             /\ \A o \in DOMAIN networkState.linkLoads \ {k} :
                   networkState'.linkLoads[o] = networkState.linkLoads[o]
             /\ \A o \in DOMAIN networkState.queues \ {k} :
                   networkState'.queues[o] = networkState.queues[o]]_vars

\* A call with three packets on a link whose load was above its capacity of
\* one: the load came down to the capacity and the queue took the rest.
C23_Witness ==
    /\ "ret" \in DOMAIN response
    /\ response.ret = FALSE
    /\ response.packets = 3
    /\ CapacityOfKey(links, response.linkKey) = 1
    /\ networkState.linkLoads[response.linkKey] = 1
    /\ networkState.queues[response.linkKey] = 4

\* C25: the queue of every link is an integer that is not negative, in
\* every state the handlers reach.
C25_QueuesNonnegative ==
    \A k \in DOMAIN networkState.queues : networkState.queues[k] \in Nat

\* Two ticks under a changed capacity have left a queue.
C25_Witness ==
    /\ networkState.simulationStep = 2
    /\ links # InitialLinks
    /\ \E k \in DOMAIN networkState.queues : networkState.queues[k] > 0

\* C27: a link-capacity update answered with 200 changes the capacity of
\* that link and nothing else (no other link, no load, queue, counter,
\* packet record or rate), and the tick after it drains the queues and caps
\* the loads by the capacities in force when it runs.
C27_CapacityUpdateFrame ==
    /\ [][\A link \in PathLinks, capacity \in Bodies(MaxCapacity) :
             (PostLinkCapacity(link[1], link[2], capacity)
                 /\ response'.status = 200) =>
                /\ links' = [links EXCEPT
                               ![findLink(links, link[1], link[2])].capacity =
                                   parseInt(capacity)]
                /\ UNCHANGED <<networkState, trafficRates>>]_vars
    /\ [][DrainLaw /\ RecordedPacketsLaw]_vars

\* The capacity of A-C was lowered to 1 and the tick after it sent both
\* packets of A over A-C: the load is the new capacity, one packet is queued.
C27_Witness ==
    /\ links[findLink(links, "A", "C")].capacity = 1
    /\ networkState.simulationStep = 1
    /\ HopsOver(networkState.packetStats, "A-C") = 2
    /\ networkState.linkLoads["A-C"] = 1
    /\ networkState.queues["A-C"] = 1

\* C30: only a reset makes totalPacketsGenerated or totalPacketsTransmitted
\* smaller; every other handler leaves each of them equal or larger.
C30_TotalsNeverDecrease ==
    [][(\/ networkState'.totalPacketsGenerated < networkState.totalPacketsGenerated
        \/ networkState'.totalPacketsTransmitted < networkState.totalPacketsTransmitted)
          => PostReset]_vars

\* A tick at 08:00, an advance and a tick at 08:15 have added up in the
\* totals of a simulation that is started.
C30_Witness ==
    /\ networkState.simulationStep = 2
    /\ networkState.currentTime = "08:15"
    /\ networkState.isRunning
    /\ networkState.totalPacketsGenerated = 3
    /\ networkState.totalPacketsTransmitted > 0

(***************************************************************************)
(* The module by itself: the exported functions called in any order on the *)
(* state the module has when it is loaded, before initializeNetwork has    *)
(* run.  The answer records whether the call threw and how many calls of   *)
(* initializeNetwork were the last ones made (up to two).                  *)
(***************************************************************************)
Returned == [status |-> 0, threw |-> FALSE, initializeCalls |-> 0]

ModuleInit ==
    /\ networkState = InitialState
    /\ links = InitialLinks
    /\ trafficRates = InitialRates
    /\ response = Returned
    /\ advances = 0
    /\ adminOps = 0
    /\ RouterIdle
    /\ ServiceIdle

ModuleInitialize ==
    /\ networkState' = initializeNetwork(networkState, links)
    /\ response' = [Returned EXCEPT
                       !.initializeCalls = Min(response.initializeCalls + 1, 2)]
    /\ UNCHANGED <<links, trafficRates, advances, adminOps>>
    /\ UNCHANGED routerVars
    /\ UNCHANGED serviceVars

ModuleTick ==
    /\ networkState.simulationStep < MaxTicks
    /\ \E rnd \in [1..TickDraws(trafficRates[networkState.currentTime]) ->
                      0..(Len(nodes) - 2)] :
          LET res == simulateTick(networkState, links, trafficRates, rnd) IN
          /\ networkState' = res.ns
          /\ response' = [Returned EXCEPT !.threw = res.threw]
    /\ UNCHANGED <<links, trafficRates, advances, adminOps>>
    /\ UNCHANGED routerVars
    /\ UNCHANGED serviceVars

ModuleGetStats ==
    /\ getNetworkStats(networkState, links).simulationStep = networkState.simulationStep
    /\ response' = Returned
    /\ UNCHANGED <<networkState, links, trafficRates, advances, adminOps>>
    /\ UNCHANGED routerVars
    /\ UNCHANGED serviceVars

ModuleStart ==
    /\ networkState' = startSimulation(networkState, links)
    /\ response' = Returned
    /\ UNCHANGED <<links, trafficRates, advances, adminOps>>
    /\ UNCHANGED routerVars
    /\ UNCHANGED serviceVars

ModulePause ==
    /\ networkState' = pauseSimulation(networkState)
    /\ response' = Returned
    /\ UNCHANGED <<links, trafficRates, advances, adminOps>>
    /\ UNCHANGED routerVars
    /\ UNCHANGED serviceVars

ModuleReset ==
    /\ networkState' = resetSimulation(networkState, links)
    /\ response' = Returned
    /\ advances' = 0
    /\ UNCHANGED <<links, trafficRates, adminOps>>
    /\ UNCHANGED routerVars
    /\ UNCHANGED serviceVars

ModuleUpdateTrafficRates ==
    /\ adminOps < MaxAdminOps
    /\ \E nodeId \in PathNodes, newRate \in 0..MaxRate :
          LET upd == updateTrafficRates(networkState, trafficRates, nodeId, newRate)
          IN /\ trafficRates' = upd.rates
             /\ adminOps' = IF upd.ret THEN adminOps + 1 ELSE adminOps
    /\ response' = Returned
    /\ UNCHANGED <<networkState, links, advances>>
    /\ UNCHANGED routerVars
    /\ UNCHANGED serviceVars

ModuleUpdateLinkCapacity ==
    /\ adminOps < MaxAdminOps
    /\ \E link \in PathLinks, newCapacity \in 0..MaxCapacity :
          LET upd == updateLinkCapacity(links, link[1], link[2], newCapacity)
          IN /\ links' = upd.links
             /\ adminOps' = IF upd.ret THEN adminOps + 1 ELSE adminOps
    /\ response' = Returned
    /\ UNCHANGED <<networkState, trafficRates, advances>>
    /\ UNCHANGED routerVars
    /\ UNCHANGED serviceVars

ModuleAdvanceTimeSlot ==
    /\ networkState' = advanceTimeSlot(networkState)
    /\ response' = Returned
    /\ advances' = Min(advances + 1, MaxAdvances)
    /\ UNCHANGED <<links, trafficRates, adminOps>>
    /\ UNCHANGED routerVars
    /\ UNCHANGED serviceVars

ModuleNext ==
    \/ ModuleInitialize
    \/ ModuleTick
    \/ ModuleGetStats
    \/ ModuleStart
    \/ ModulePause
    \/ ModuleReset
    \/ ModuleUpdateTrafficRates
    \/ ModuleUpdateLinkCapacity
    \/ ModuleAdvanceTimeSlot

SpecModule == ModuleInit /\ [][ModuleNext]_vars

\* C26: no exported function throws, in any state the calls reach from the
\* state of the loaded module, a tick before initializeNetwork included.
C26_NoOperationThrows == ~response.threw

\* C28: initializeNetwork leaves every counter of every node and the load
\* and queue of every declared link at 0, and a second call right after the
\* first changes nothing.
C28_InitializeIdempotent ==
    [][ModuleInitialize =>
          /\ NodesAndLinksZero(networkState', links')
          /\ initializeNetwork(networkState', links') = networkState'
          /\ response.initializeCalls >= 1 => networkState' = networkState]_vars

\* initializeNetwork was called twice in a row after two ticks.
C28_Witness ==
    /\ response.initializeCalls = 2
    /\ networkState.simulationStep = 2
    /\ networkState.totalPacketsGenerated > 0
    /\ NodesAndLinksZero(networkState, links)

(***************************************************************************)
(* The server under requests of any client: a request arrives at any time  *)
(* and waits in the wire; the event loop runs one handler at a time.  The  *)
(* tick handler is taken in its two parts (clearing and draining, then the *)
(* traffic of the tick) to see what can come between them.                 *)
(***************************************************************************)
Request(op, tag) == [to |-> "server", op |-> op, tag |-> tag, data |-> NoData]

\* data is the simulationStep of the snapshot in the answer, NoData when
\* the answer has none.
Answer(op, tag, data) == [to |-> "client", op |-> op, tag |-> tag, data |-> data]

\* An answer of this kind is on its way.
Answered(op, tag) ==
    \E m \in wire : m.to = "client" /\ m.op = op /\ m.tag = tag

ServerOps == {"tick", "stats", "reset", "capacity"}

\* The rate of A in the first slot set to 1 by a rate update before.
ServiceRates ==
    updateTrafficRates(InitialState, InitialRates, "A", parseInt(2)).rates

\* simulateTick up to processQueuedPackets().
tickClearAndDrain(ns, linkSeq, rates) ==
    IF ns.currentTime \notin DOMAIN rates THEN ns
    ELSE processQueuedPackets(
             [ns EXCEPT !.linkLoads = EmptyObject, !.packetStats = <<>>], linkSeq)

\* simulateTick from the traffic of the nodes to the end.
tickGenerateTraffic(ns, linkSeq, rates, rnd) ==
    IF ns.currentTime \notin DOMAIN rates THEN [ns |-> ns, threw |-> FALSE]
    ELSE LET st == generateTraffic(
                      [ns |-> ns, tickPacketsGenerated |-> 0, threw |-> FALSE],
                      linkSeq, rates[ns.currentTime], 1, rnd)
         IN IF st.threw THEN [ns |-> st.ns, threw |-> TRUE]
            ELSE [ns |-> [st.ns EXCEPT
                            !.totalPacketsGenerated = @ + st.tickPacketsGenerated,
                            !.simulationStep = @ + 1],
                  threw |-> FALSE]

\* A handler that gave up the event loop between its statements.
HandlerIdle_yields == TRUE

\* The handlers of routes/simulate.js are synchronous: the event loop takes
\* the next request when the handler it runs has returned.
HandlerIdle == handler.phase = "idle"

ServerInit ==
    /\ networkState = initializeNetwork(InitialState, InitialLinks)
    /\ links = InitialLinks
    /\ trafficRates = ServiceRates
    /\ response = NoResponse
    /\ advances = 0
    /\ adminOps = 0
    /\ RouterIdle
    /\ ServiceIdle

RequestArrives ==
    /\ Cardinality(wire) < MaxPending
    /\ \E op \in ServerOps :
          /\ Request(op, "none") \notin wire
          /\ wire' = wire \cup {Request(op, "none")}
    /\ UNCHANGED <<engineVars, driver, handler>>
    /\ UNCHANGED routerVars

ServeTickBegin ==
    /\ HandlerIdle
    /\ Request("tick", "none") \in wire
    /\ networkState.simulationStep < MaxTicks
    /\ \E rnd \in [1..TickDraws(trafficRates[networkState.currentTime]) ->
                      0..(Len(nodes) - 2)] :
          handler' = [phase |-> "tick", before |-> networkState, rnd |-> rnd]
    /\ networkState' = tickClearAndDrain(networkState, links, trafficRates)
    /\ wire' = wire \ {Request("tick", "none")}
    /\ UNCHANGED <<links, trafficRates, response, advances, adminOps, driver>>
    /\ UNCHANGED routerVars

ServeTickFinish ==
    /\ handler.phase = "tick"
    /\ LET res == tickGenerateTraffic(networkState, links, trafficRates,
                                       handler.rnd)
       IN /\ networkState' = res.ns
          /\ response' = [status |-> IF res.threw THEN 500 ELSE 200]
    /\ handler' = Idle
    /\ UNCHANGED <<links, trafficRates, advances, adminOps, driver, wire>>
    /\ UNCHANGED routerVars

ServeStats ==
    /\ HandlerIdle
    /\ Request("stats", "none") \in wire
    /\ wire' = wire \ {Request("stats", "none")}
    /\ response' = [status |-> 200]
    /\ UNCHANGED <<networkState, links, trafficRates, advances, adminOps,
                   driver, handler>>
    /\ UNCHANGED routerVars

ServeReset ==
    /\ HandlerIdle
    /\ Request("reset", "none") \in wire
    /\ wire' = wire \ {Request("reset", "none")}
    /\ networkState' = resetSimulation(networkState, links)
    /\ response' = [status |-> 200]
    /\ advances' = 0
    /\ UNCHANGED <<links, trafficRates, adminOps, driver, handler>>
    /\ UNCHANGED routerVars

ServeCapacity ==
    /\ HandlerIdle
    /\ Request("capacity", "none") \in wire
    /\ adminOps < MaxAdminOps
    /\ wire' = wire \ {Request("capacity", "none")}
    /\ \E link \in PathLinks, capacity \in Bodies(MaxCapacity) :
          IF Falsy(capacity) \/ capacity <= 0
          THEN /\ response' = [status |-> 400]
               /\ UNCHANGED <<links, adminOps>>
          ELSE LET upd == updateLinkCapacity(links, link[1], link[2],
                                             parseInt(capacity))
               IN /\ links' = upd.links
                  /\ response' = [status |-> IF upd.ret THEN 200 ELSE 404]
                  /\ adminOps' = IF upd.ret THEN adminOps + 1 ELSE adminOps
    /\ UNCHANGED <<networkState, trafficRates, advances, driver, handler>>
    /\ UNCHANGED routerVars

ServerNext ==
    \/ RequestArrives
    \/ ServeTickBegin
    \/ ServeTickFinish
    \/ ServeStats
    \/ ServeReset
    \/ ServeCapacity

SpecServer == ServerInit /\ [][ServerNext]_vars

\* C24: whatever requests arrive and wait, a tick begins only when no tick
\* is under way, the stats handler reads only when none is, and a tick ends
\* in the state simulateTick gives from the state it began in: nothing
\* came between its two parts.
C24_TicksSerialized ==
    /\ [][ServeTickBegin => handler.phase = "idle"]_vars
    /\ [][ServeStats => handler.phase = "idle"]_vars
    /\ [][ServeTickFinish =>
             networkState' = simulateTick(handler.before, links, trafficRates,
                                         handler.rnd).ns]_vars

\* A second tick is half way while a stats and a reset request wait.
C24_Witness ==
    /\ handler.phase = "tick"
    /\ handler.before.simulationStep = 1
    /\ handler.before.packetStats # <<>>
    /\ networkState.packetStats = <<>>
    /\ wire = {Request("stats", "none"), Request("reset", "none")}

(***************************************************************************)
(* NetworkSimulator.jsx with the server: the buttons, the interval of the  *)
(* auto-run effect, the requests and answers in flight and the server's    *)
(* handlers, each of which runs to its end.  Of the data shown the tick    *)
(* counter is kept; an effect is taken to run with the state change that   *)
(* triggers it.  The wire holds one message of a kind at a time and        *)
(* MaxInFlight messages in all.                                            *)
(***************************************************************************)
\* if (autoRun && isSimulating && !connectionError) setInterval(...)
IntervalActive ==
    driver.autoRun /\ driver.isSimulating /\ ~driver.connectionError

\* The component mounts and fetches the stats once.
DriverInit ==
    /\ networkState = initializeNetwork(InitialState, InitialLinks)
    /\ links = InitialLinks
    /\ trafficRates = ServiceRates
    /\ response = NoResponse
    /\ advances = 0
    /\ adminOps = 0
    /\ RouterIdle
    /\ driver = Unmounted
    /\ wire = {Request("stats", "none")}
    /\ handler = Idle

ClickStart ==
    /\ Cardinality(wire) < MaxInFlight
    /\ ~driver.loading /\ ~driver.connectionError /\ ~driver.isSimulating
    /\ driver' = [driver EXCEPT !.loading = TRUE, !.connectionError = FALSE]
    /\ wire' = wire \cup {Request("start", "none")}
    /\ UNCHANGED <<engineVars, handler>>
    /\ UNCHANGED routerVars

ClickPause ==
    /\ Cardinality(wire) < MaxInFlight
    /\ ~driver.loading /\ ~driver.connectionError /\ driver.isSimulating
    /\ driver' = [driver EXCEPT !.loading = TRUE, !.connectionError = FALSE]
    /\ wire' = wire \cup {Request("pause", "none")}
    /\ UNCHANGED <<engineVars, handler>>
    /\ UNCHANGED routerVars

ClickReset ==
    /\ Cardinality(wire) < MaxInFlight
    /\ ~driver.loading /\ ~driver.connectionError
    /\ driver' = [driver EXCEPT !.loading = TRUE, !.connectionError = FALSE,
                                !.resetSent = TRUE]
    /\ wire' = wire \cup {Request("reset", "none")}
    /\ UNCHANGED <<engineVars, handler>>
    /\ UNCHANGED routerVars

\* The Step button: runTick().
ClickTick ==
    /\ Cardinality(wire) < MaxInFlight
    /\ ~driver.loading /\ ~driver.autoRun /\ ~driver.connectionError
    /\ Request("tick", "manual") \notin wire
    /\ driver' = [driver EXCEPT !.connectionError = FALSE]
    /\ wire' = wire \cup {Request("tick", "manual")}
    /\ UNCHANGED <<engineVars, handler>>
    /\ UNCHANGED routerVars

\* The interval of the auto-run effect fires: runTick().
TimerFires ==
    /\ Cardinality(wire) < MaxInFlight
    /\ IntervalActive
    /\ Request("tick", "auto") \notin wire
    /\ driver' = [driver EXCEPT !.connectionError = FALSE]
    /\ wire' = wire \cup {Request("tick", "auto")}
    /\ UNCHANGED <<engineVars, handler>>
    /\ UNCHANGED routerVars

\* The Retry button of the connection error banner: fetchStats().
ClickRetry ==
    /\ Cardinality(wire) < MaxInFlight
    /\ driver.connectionError /\ ~driver.loading
    /\ Request("stats", "none") \notin wire
    /\ driver' = [driver EXCEPT !.connectionError = FALSE]
    /\ wire' = wire \cup {Request("stats", "none")}
    /\ UNCHANGED <<engineVars, handler>>
    /\ UNCHANGED routerVars

HandleStart ==
    /\ Request("start", "none") \in wire
    /\ networkState' = startSimulation(networkState, links)
    /\ response' = [status |-> 200]
    /\ wire' = (wire \ {Request("start", "none")}) \cup {Answer("start", "none", NoData)}
    /\ UNCHANGED <<links, trafficRates, advances, adminOps, driver, handler>>
    /\ UNCHANGED routerVars

HandlePause ==
    /\ Request("pause", "none") \in wire
    /\ networkState' = pauseSimulation(networkState)
    /\ response' = [status |-> 200]
    /\ wire' = (wire \ {Request("pause", "none")}) \cup {Answer("pause", "none", NoData)}
    /\ UNCHANGED <<links, trafficRates, advances, adminOps, driver, handler>>
    /\ UNCHANGED routerVars

HandleReset ==
    /\ Request("reset", "none") \in wire
    /\ networkState' = resetSimulation(networkState, links)
    /\ response' = [status |-> 200]
    /\ advances' = 0
    /\ wire' = (wire \ {Request("reset", "none")}) \cup {Answer("reset", "none", NoData)}
    /\ UNCHANGED <<links, trafficRates, adminOps, driver, handler>>
    /\ UNCHANGED routerVars

HandleTick ==
    /\ networkState.simulationStep < MaxTicks
    /\ \E rnd \in [1..TickDraws(trafficRates[networkState.currentTime]) ->
                      0..(Len(nodes) - 2)] :
          LET res == simulateTick(networkState, links, trafficRates, rnd) IN
          /\ networkState' = res.ns
          /\ response' = [status |-> IF res.threw THEN 500 ELSE 200]
    /\ \E tag \in {"auto", "manual"} :
          /\ Request("tick", tag) \in wire
          /\ ~Answered("tick", tag)
          /\ wire' = (wire \ {Request("tick", tag)})
                        \cup {Answer("tick", tag, networkState'.simulationStep)}
    /\ UNCHANGED <<links, trafficRates, advances, adminOps, driver, handler>>
    /\ UNCHANGED routerVars

HandleStats ==
    /\ \E tag \in {"none", "start", "reset"} :
          /\ Request("stats", tag) \in wire
          /\ ~Answered("stats", tag)
          /\ wire' = (wire \ {Request("stats", tag)})
                        \cup {Answer("stats", tag, networkState.simulationStep)}
    /\ response' = [status |-> 200]
    /\ UNCHANGED <<networkState, links, trafficRates, advances, adminOps,
                   driver, handler>>
    /\ UNCHANGED routerVars

\* startSimulation after the answer: the flags, then await fetchStats().
ReceiveStart ==
    /\ Answer("start", "none", NoData) \in wire
    /\ driver' = [driver EXCEPT !.isSimulating = TRUE, !.autoRun = TRUE,
                                !.connectionError = FALSE]
    /\ wire' = (wire \ {Answer("start", "none", NoData)}) \cup {Request("stats", "start")}
    /\ UNCHANGED <<engineVars, handler>>
    /\ UNCHANGED routerVars

ReceivePause ==
    /\ Answer("pause", "none", NoData) \in wire
    /\ driver' = [driver EXCEPT !.isSimulating = FALSE, !.autoRun = FALSE,
                                !.loading = FALSE]
    /\ wire' = wire \ {Answer("pause", "none", NoData)}
    /\ UNCHANGED <<engineVars, handler>>
    /\ UNCHANGED routerVars

ReceiveReset ==
    /\ Answer("reset", "none", NoData) \in wire
    /\ driver' = [driver EXCEPT !.isSimulating = FALSE, !.autoRun = FALSE,
                                !.connectionError = FALSE]
    /\ wire' = (wire \ {Answer("reset", "none", NoData)}) \cup {Request("stats", "reset")}
    /\ UNCHANGED <<engineVars, handler>>
    /\ UNCHANGED routerVars

\* runTick after the answer: setNetworkData(result.data).
ReceiveTick ==
    /\ \E m \in wire :
          /\ m.to = "client" /\ m.op = "tick"
          /\ wire' = wire \ {m}
          /\ driver' = [driver EXCEPT !.networkData = m.data]
    /\ UNCHANGED <<engineVars, handler>>
    /\ UNCHANGED routerVars

\* fetchStats after the answer: setNetworkData(result.data); the start or
\* reset that awaited it ends with setLoading(false).
ReceiveStats ==
    /\ \E m \in wire :
          /\ m.to = "client" /\ m.op = "stats"
          /\ wire' = wire \ {m}
          /\ driver' = [driver EXCEPT
                           !.networkData = m.data,
                           !.loading = IF m.tag = "none" THEN @ ELSE FALSE]
    /\ UNCHANGED <<engineVars, handler>>
    /\ UNCHANGED routerVars

\* A fetch fails: the catch block sets connectionError (that of fetchStats
\* also empties the data shown), and the finally block of a start, pause
\* or reset ends the loading.
FetchFails ==
    /\ \E m \in wire :
          /\ wire' = wire \ {m}
          /\ driver' = [driver EXCEPT
                           !.connectionError = TRUE,
                           !.networkData = IF m.op = "stats" THEN NoData ELSE @,
                           !.loading = IF \/ m.op \in {"start", "pause", "reset"}
                                          \/ m.tag \in {"start", "reset"}
                                       THEN FALSE ELSE @]
    /\ UNCHANGED <<engineVars, handler>>
    /\ UNCHANGED routerVars

DriverNext ==
    \/ ClickStart
    \/ ClickPause
    \/ ClickReset
    \/ ClickTick
    \/ TimerFires
    \/ ClickRetry
    \/ HandleStart
    \/ HandlePause
    \/ HandleReset
    \/ HandleTick
    \/ HandleStats
    \/ ReceiveStart
    \/ ReceivePause
    \/ ReceiveReset
    \/ ReceiveTick
    \/ ReceiveStats
    \/ FetchFails

SpecDriver == DriverInit /\ [][DriverNext]_vars

\* C29: the interval sends a tick only while the simulation is running:
\* after the server has completed a pause or a reset, the interval sends
\* no tick until the server has completed a start.
C29_AutoTicksOnlyWhileRunning ==
    [][TimerFires => networkState.isRunning]_vars

\* C31: the drain of a tick runs before the traffic of the tick: what the
\* hops of tick t overflow is all in the queue at the end of tick t, on top
\* of what the drain left of the old queue, and the drain of tick t+1 is
\* the first to release it.
C31_DrainBeforeTraffic ==
    [][IsTickStep =>
          \A k \in DOMAIN networkState.queues :
             /\ networkState'.queues[k] >= FailedHops(networkState'.packetStats, k)
             /\ networkState'.queues[k] - FailedHops(networkState'.packetStats, k)
                   = networkState.queues[k]
                     - Released(networkState.queues[k], CapacityOfKey(links, k))]_vars

\* The first tick has overflowed a link and the overflow is in the queue.
C31_Witness ==
    /\ networkState.simulationStep = 1
    /\ \E k \in DOMAIN networkState.queues :
          /\ FailedHops(networkState.packetStats, k) > 0
          /\ networkState.queues[k] = FailedHops(networkState.packetStats, k)

\* A start, pause or reset request is handled in this step.
IsControlStep == PostStart \/ PostPause \/ PostReset

\* C33: isRunning is false at first; start makes it true, pause and reset
\* make it false, and no other handler (tick, advance-time, stats, rate and
\* capacity updates) changes it.
C33_RunFlagStateMachine ==
    /\ ~networkState.isRunning
    /\ [][PostStart => networkState'.isRunning]_vars
    /\ [][PostPause \/ PostReset => ~networkState'.isRunning]_vars
    /\ [][networkState'.isRunning # networkState.isRunning => IsControlStep]_vars

\* The flag set by a start is still set after two ticks, an advance and an
\* administrative update.
C33_Witness ==
    /\ networkState.isRunning
    /\ networkState.simulationStep = 2
    /\ advances = 1
    /\ adminOps = 1

\* C34: after a tick the packet history holds the packets of that tick and
\* no other: one for each draw of the tick, each with the value the tick
\* counter had before the tick as its timestamp.
C34_HistoryOfThisTickOnly ==
    [][IsTickStep =>
          /\ Len(networkState'.packetStats) =
                TickDraws(trafficRates[networkState.currentTime])
          /\ \A j \in 1..Len(networkState'.packetStats) :
                /\ networkState'.packetStats[j].timestamp = networkState.simulationStep
                /\ networkState'.packetStats[j].timestamp
                      = networkState'.simulationStep - 1]_vars

\* The second tick has left its own packets only.
C34_Witness ==
    /\ networkState.simulationStep = 2
    /\ networkState.packetStats # <<>>
    /\ \A j \in 1..Len(networkState.packetStats) :
          networkState.packetStats[j].timestamp = 1

\* C35: a hop is billed to the declared link with its key and to no other:
\* a hop against the declared direction fails and its packet is recorded as
\* not transmitted, and loads and queues exist for declared links only.
C35_HopBilledToDeclaredLink ==
    /\ [](/\ DOMAIN networkState.linkLoads \subseteq LinkKeys(links)
          /\ DOMAIN networkState.queues \subseteq LinkKeys(links)
          /\ \A j \in 1..Len(networkState.packetStats) :
                LET p == networkState.packetStats[j] IN
                \A h \in 1..Len(p.route) :
                   p.route[h].linkKey \notin LinkKeys(links) =>
                      ~p.route[h].transmitted /\ ~p.transmitted)
    /\ [][RecordedPacketsLaw]_vars
    /\ [][IsTickStep =>
             \A k \in DOMAIN networkState.queues :
                networkState'.queues[k] <=
                   networkState.queues[k] + HopsOver(networkState'.packetStats, k)]_vars

\* A packet of C was routed to A against the declared link A-C: the hop
\* failed, and neither A-C nor any other link carries a load or a queue.
C35_Witness ==
    /\ networkState.simulationStep = 1
    /\ \E j \in 1..Len(networkState.packetStats) :
          LET p == networkState.packetStats[j] IN
          /\ p.path = <<"C", "A">>
          /\ p.route[1].linkKey = "C-A"
          /\ ~p.route[1].transmitted
          /\ ~p.transmitted
    /\ \A k \in LinkKeys(links) :
          GetOr0(networkState.linkLoads, k) = 0 /\ networkState.queues[k] = 0

NodeSum(ns, field) ==
    SumOver([n \in DOMAIN ns.nodeStats |-> ns.nodeStats[n][field]],
            DOMAIN ns.nodeStats)

\* C38 as stated: the packetsGenerated of the nodes add up to
\* totalPacketsGenerated in every reachable state.
C38_NodeSumEqualsTotal ==
    NodeSum(networkState, "packetsGenerated") = networkState.totalPacketsGenerated

\* C38, amended: the packetsGenerated of the nodes add up to at most
\* totalPacketsGenerated.  A tick adds the same amount to both and a reset
\* sets both to 0, while a start sets the counters of the nodes to 0 and
\* keeps the total, so the two are equal only as long as no start has been
\* handled after a tick.
C38_NodeSumAtMostTotal ==
    /\ [](NodeSum(networkState, "packetsGenerated")
             <= networkState.totalPacketsGenerated)
    /\ [][IsTickStep =>
             NodeSum(networkState', "packetsGenerated")
                - NodeSum(networkState, "packetsGenerated")
             = networkState'.totalPacketsGenerated
                - networkState.totalPacketsGenerated]_vars
    /\ [][PostStart =>
             /\ NodeSum(networkState', "packetsGenerated") = 0
             /\ networkState'.totalPacketsGenerated =
                   networkState.totalPacketsGenerated]_vars
    /\ [][PostReset =>
             /\ NodeSum(networkState', "packetsGenerated") = 0
             /\ networkState'.totalPacketsGenerated = 0]_vars

\* A tick, a start and a tick: the nodes count the second tick only.
C38_Witness ==
    /\ networkState.simulationStep = 2
    /\ networkState.isRunning
    /\ NodeSum(networkState, "packetsGenerated") > 0
    /\ NodeSum(networkState, "packetsGenerated")
          < networkState.totalPacketsGenerated

\* C39: the packetsReceived of the nodes add up to at most
\* totalPacketsTransmitted in every reachable state.
C39_ReceivedAtMostTransmitted ==
    NodeSum(networkState, "packetsReceived") <= networkState.totalPacketsTransmitted

\* Packets have been received, and the drain has added to the total what
\* no node has received.
C39_Witness ==
    /\ networkState.simulationStep = 2
    /\ NodeSum(networkState, "packetsReceived") > 0
    /\ NodeSum(networkState, "packetsReceived")
          < networkState.totalPacketsTransmitted

(***************************************************************************)
(* dijkstra one loop iteration at a time, on the link lists the router     *)
(* specification builds, for any source of the node set and any            *)
(* destination, one that is not a node included; and one tick of the       *)
(* engine over the list built.  The path loop is followed for              *)
(* MaxReconstructSteps iterations.                                         *)
(***************************************************************************)
undefined == "undefined"

\* obj[key], undefined when the object has no such key.
JsGet(obj, key) == IF key \in DOMAIN obj THEN obj[key] ELSE undefined

\* A variant of deleteNode that leaves the node in the set.
deleteNode_keeps(unvisited, node) == unvisited

\* unvisited.delete(currentNode)
deleteNode(unvisited, node) == SelectSeq(unvisited, LAMBDA n : n # node)

Destinations == NodeSet \cup {"Z"}

\* Lines 5 to 26: distances, previous and unvisited as initialized.
DijkstraCall(start, end) ==
    /\ rPhase = "build"
    /\ dj.pc = "idle"
    /\ networkState.simulationStep = 0
    /\ dj' = [pc |-> "while", start |-> start, end |-> end,
              dp |-> [distances |-> initDistances(nodes, start),
                      previous |-> initPrevious(nodes)],
              unvisited |-> initUnvisited(nodes, 1, <<>>),
              iterations |-> 0, currentNode |-> null, path |-> <<>>]
    /\ rStart' = start
    /\ rEnd' = end
    /\ rPhase' = "routed"
    /\ UNCHANGED <<rLinks, rPath, rPath2>>
    /\ UNCHANGED engineVars
    /\ UNCHANGED serviceVars

\* The test of while (unvisited.size > 0) and one run of its body; leaving
\* the loop sets currentNode = end for the path loop.
DijkstraWhile ==
    /\ dj.pc = "while"
    /\ LET graph == buildGraph([n \in NodeSet |-> <<>>], rLinks, 1)
           currentNode == findMinNode(dj.unvisited, dj.dp.distances, 1,
                                      null, Infinity)
           leave == [dj EXCEPT !.pc = "reconstruct", !.currentNode = dj.end]
       IN dj' = IF Len(dj.unvisited) = 0 THEN leave
                ELSE IF currentNode = null
                        \/ dj.dp.distances[currentNode] = Infinity
                THEN [leave EXCEPT !.iterations = @ + 1]
                ELSE LET rest == deleteNode(dj.unvisited, currentNode) IN
                     IF currentNode = dj.end
                     THEN [leave EXCEPT !.iterations = @ + 1,
                                        !.unvisited = rest]
                     ELSE [dj EXCEPT
                             !.iterations = @ + 1,
                             !.unvisited = rest,
                             !.dp = relaxNeighbors(dj.dp, graph[currentNode], 1,
                                                   currentNode, rest)]
    /\ UNCHANGED <<rLinks, rStart, rEnd, rPath, rPath2, rPhase>>
    /\ UNCHANGED engineVars
    /\ UNCHANGED serviceVars

\* The test of while (currentNode !== null) and one run of its body, or,
\* when the loop is left, the return of [] or of the path.
DijkstraReconstruct ==
    /\ dj.pc = "reconstruct"
    /\ IF dj.currentNode = null
       THEN /\ dj' = [dj EXCEPT !.pc = "returned"]
            /\ rPath' = IF dj.path = <<>> \/ dj.path[1] # dj.start
                        THEN <<>> ELSE dj.path
       ELSE /\ Len(dj.path) < MaxReconstructSteps
            /\ dj' = [dj EXCEPT
                        !.path = <<dj.currentNode>> \o @,
                        !.currentNode = JsGet(dj.dp.previous, dj.currentNode)]
            /\ UNCHANGED rPath
    /\ UNCHANGED <<rLinks, rStart, rEnd, rPath2, rPhase>>
    /\ UNCHANGED engineVars
    /\ UNCHANGED serviceVars

\* One tick of the engine over the link list built.
DijkstraTick ==
    /\ dj.pc = "idle"
    /\ networkState.simulationStep = 0
    /\ links' = rLinks
    /\ \E rnd \in [1..TickDraws(ServiceRates[networkState.currentTime]) ->
                      0..(Len(nodes) - 2)] :
          LET res == simulateTick(initializeNetwork(networkState, rLinks),
                                  rLinks, ServiceRates, rnd)
          IN /\ networkState' = res.ns
             /\ response' = [status |-> IF res.threw THEN 500 ELSE 200]
    /\ trafficRates' = ServiceRates
    /\ UNCHANGED <<advances, adminOps>>
    /\ UNCHANGED routerVars
    /\ UNCHANGED serviceVars

DijkstraNext ==
    \/ \E from \in NodeSet, to \in NodeSet : RouterAddLink(from, to)
    \/ \E start \in NodeSet, end \in Destinations : DijkstraCall(start, end)
    \/ DijkstraWhile
    \/ DijkstraReconstruct
    \/ DijkstraTick

SpecDijkstra == Init /\ [][DijkstraNext]_vars

\* No node is twice in the sequence.
Distinct(seq) == \A i \in 1..Len(seq), j \in 1..Len(seq) : seq[i] = seq[j] => i = j

\* C36: for a source and a destination of the node set and any link list,
\* each iteration of the main loop of dijkstra takes a node out of the
\* unvisited set and each iteration of the path loop adds a node that the
\* path does not have, so each loop ends within as many iterations as
\* there are nodes, and the call returns what the engine's router returns;
\* a tick records at most as many packets as the rates of the slot add up
\* to and completes.
C36_DijkstraTerminates ==
    /\ []((dj.pc # "idle" /\ dj.end \in NodeSet) =>
             /\ dj.iterations <= Len(nodes)
             /\ dj.iterations + Len(dj.unvisited) >= Len(nodes)
             /\ Len(dj.path) <= Len(nodes)
             /\ Distinct(dj.path)
             /\ dj.pc = "reconstruct" =>
                   dj.currentNode = null \/ dj.currentNode \in NodeSet
             /\ dj.pc = "returned" =>
                   rPath = dijkstra(nodes, rLinks, dj.start, dj.end))
    /\ [][(DijkstraWhile /\ dj'.pc = "while") =>
             Len(dj'.unvisited) < Len(dj.unvisited)]_vars
    /\ [][(DijkstraReconstruct /\ dj.end \in NodeSet /\ dj'.pc = "reconstruct") =>
             /\ Len(dj'.path) = Len(dj.path) + 1
             /\ dj.currentNode \notin {dj.path[i] : i \in 1..Len(dj.path)}]_vars
    /\ [][IsTickStep =>
             Len(networkState'.packetStats)
                <= TickDraws(trafficRates'[networkState'.currentTime])]_vars

\* A call from A to E on the chain A-B-C-D-E has returned after five
\* iterations of each loop.
C36_Witness ==
    /\ dj.pc = "returned"
    /\ dj.end \in NodeSet
    /\ dj.iterations = Len(nodes)
    /\ rPath = <<"A", "B", "C", "D", "E">>

\* C37: dijkstra called with a destination that is not a node ends its
\* path loop, which no run over the nodes takes through more iterations
\* than there are nodes, and returns the empty sequence.
C37_UnknownDestinationReturnsEmpty ==
    (dj.pc # "idle" /\ dj.end \notin NodeSet) =>
       /\ Len(dj.path) <= Len(nodes)
       /\ dj.pc = "returned" => rPath = <<>>

\* C40: the tick counter the component shows does not go down unless the
\* component has asked for a reset: an answer with an older snapshot does
\* not replace a newer one that is shown.
C40_ShownCounterNeverGoesBack ==
    [][(/\ driver.networkData # NoData
        /\ driver'.networkData # NoData
        /\ driver'.networkData < driver.networkData) => driver.resetSent]_vars

====
